---- MODULE Spec2Model ----
(***************************************************************************)
(* A model of dinghy: device discovery and compatibility, overlay          *)
(* resolution, and the bundle / install / run / clean operations of the    *)
(* Android and SSH devices.                                                *)
(*                                                                         *)
(* Strings that the code takes apart are sequences of symbols; paths are   *)
(* sequences of components; Option<T> is the empty or the one-element      *)
(* sequence.                                                               *)
(***************************************************************************)
EXTENDS Integers, Sequences, FiniteSets, TLC

VARIABLES
    work_dir,         \* the overlay work directory: whether it exists, its files
    ov_env,           \* PKG_CONFIG_LIBDIR and the PKG_CONFIG_<id>_PREFIX variables
    apply_result,     \* what the passes of apply_overlay did and returned
    walker,           \* what the directory walker of rec_copy leaves out, and the flag
    getprop,          \* outcome of `adb -s <id> shell getprop ro.product.cpu.abilist`
    from_id_result,   \* what AndroidDevice::from_id returned for it
    device,           \* the Device a compatibility question is asked about
    compat,           \* the last compatibility answer
    target_path,      \* Overlayer::overlay: the project root
    home,             \* home_dir()
    conf_overlays,    \* configuration.overlays: the configured overlay ids
    overlay_fs,       \* the overlay root directories on disk
    overlay_result,   \* what Overlayer::overlay computed
    lib_file,         \* the last component of the path given to Overlayer::lib_name
    lib_result,       \* what Overlayer::lib_name returned
    path_dev,         \* the device a remote path is derived for
    host_a, host_b,   \* two host bundle paths
    remote_paths,     \* the remote paths derived from them
    maker,            \* the bundling function in use
    source,           \* the source tree: length and modification time of each file
    bundle,           \* the bundle directory on the host
    clock,            \* the host's time
    dirty,            \* the source files changed since the last bundling
    make,             \* what the last bundling did
    dev,              \* the device an operation is called on
    app_path,         \* the path make_app returned for it
    call,             \* the arguments, environment and terminal of the last run_app
    op,               \* the last device operation: its subprocesses and its result
    remote,           \* the files of the remote bundle directory
    cli,              \* the command line of one cargo-dinghy invocation
    drv,              \* where that invocation is, and how it ended
    env,              \* the environment variables of the process
    shims,            \* the wrapper scripts on disk: path -> content
    builds,           \* the platforms built so far in this process, in order
    setup,            \* the last call of setup_cc / setup_linker on its own
    host_tools,       \* what the host offers to the managers: adb, the iOS tooling, ...
    probe_result,     \* what Dinghy::probe and the device listing returned
    toolchain_dir,    \* a toolchain directory on disk, and the platform's configuration
    new_result,       \* what RegularPlatform::new returned for it
    strip_build,      \* a platform and the build it strips: how the tool fares on each runnable
    strip_result,     \* what Platform::strip did and returned
    plat_conf,        \* the host OS and the platforms the configuration names
    dinghy_platforms, \* what Dinghy::discover_platforms returned
    by_name           \* the last platform_by_name: the name asked, the answer

abiVars     == <<getprop, from_id_result>>
compatVars  == <<device, compat>>
overlayVars == <<target_path, home, conf_overlays, overlay_fs, overlay_result>>
libVars     == <<lib_file, lib_result>>
pathVars    == <<path_dev, host_a, host_b, remote_paths>>
bundleVars  == <<maker, source, bundle, clock, dirty, make>>
deployVars  == <<dev, app_path, call, op, remote>>
runVars     == <<cli, drv>>
envVars     == <<env, shims, builds, setup>>
probeVars   == <<host_tools, probe_result>>
tcVars      == <<toolchain_dir, new_result>>
stripVars   == <<strip_build, strip_result>>
platVars    == <<envVars, probeVars, tcVars, stripVars>>
oldVars     == <<abiVars, compatVars, overlayVars, libVars, pathVars, bundleVars, deployVars,
                 runVars>>
discVars    == <<plat_conf, dinghy_platforms, by_name>>
copyVars    == <<walker>>
applyVars   == <<work_dir, ov_env, apply_result>>
lateVars    == <<discVars, copyVars, applyVars>>
vars        == <<oldVars, platVars, lateVars>>

\* what the operations of one part leave alone
exceptAbi     == <<compatVars, overlayVars, libVars, pathVars, bundleVars, deployVars, runVars, platVars, lateVars>>
exceptCompat  == <<abiVars, overlayVars, libVars, pathVars, bundleVars, deployVars, runVars, platVars, lateVars>>
exceptOverlay == <<abiVars, compatVars, libVars, pathVars, bundleVars, deployVars, runVars, platVars, lateVars>>
exceptLib     == <<abiVars, compatVars, overlayVars, pathVars, bundleVars, deployVars, runVars, platVars, lateVars>>
exceptPath    == <<abiVars, compatVars, overlayVars, libVars, bundleVars, deployVars, runVars, platVars, lateVars>>
exceptBundle  == <<abiVars, compatVars, overlayVars, libVars, pathVars, deployVars, runVars, platVars, lateVars>>
exceptDeploy  == <<abiVars, compatVars, overlayVars, libVars, pathVars, bundleVars, runVars, platVars, lateVars>>
exceptRun     == <<abiVars, overlayVars, libVars, pathVars, platVars, lateVars>>
exceptEnv     == <<oldVars, probeVars, tcVars, stripVars, lateVars>>
exceptProbe   == <<oldVars, envVars, tcVars, stripVars, lateVars>>
exceptTc      == <<oldVars, envVars, probeVars, stripVars, lateVars>>
exceptDisc    == <<oldVars, platVars, copyVars, applyVars>>
exceptApply   == <<oldVars, platVars, discVars, copyVars>>
exceptStrip   == <<oldVars, envVars, probeVars, tcVars, lateVars>>

None    == <<>>
Some(x) == <<x>>

(***************************************************************************)
(* Bounds                                                                  *)
(***************************************************************************)
MaxOut     == 5    \* longest getprop output, in symbols
MaxTargets == 2    \* longest supported_targets list of a device asked about
MaxDepth   == 2    \* deepest project root, in directories below the root
MaxName    == 5    \* longest file name tried exhaustively, in characters
MaxClock   == 5    \* edits and bundlings in one run
MaxLen     == 2    \* longest source file, in bytes
MaxBuilds  == 2    \* platforms built in one process
MaxSetups  == 3    \* calls of setup_cc / setup_linker in one process
MaxTests   == 2    \* runnables one compile step returns
MaxArgs    == 2    \* longest argument list, and longest environment list, of run_app

(***************************************************************************)
(* Sequences of at most n elements of S                                    *)
(***************************************************************************)
SeqsUpTo(S, n) == UNION { [1..k -> S] : k \in 0..n }

(***************************************************************************)
(* AndroidDevice::from_id                                                  *)
(***************************************************************************)
AbiNames   == {"arm64-v8a", "armeabi-v7a", "armeabi", "x86"}
OtherNames == {"mips"}
Comma      == ","
Newline    == "\n"
Symbols    == AbiNames \cup OtherNames \cup {Comma, Newline}

IsWhitespace(c) == c = Newline

\* str::trim
RECURSIVE TrimStart(_)
TrimStart(s) ==
    IF s # <<>> /\ IsWhitespace(Head(s)) THEN TrimStart(Tail(s)) ELSE s

RECURSIVE TrimEnd(_)
TrimEnd(s) ==
    IF s # <<>> /\ IsWhitespace(s[Len(s)])
    THEN TrimEnd(SubSeq(s, 1, Len(s) - 1))
    ELSE s

Trim(s) == TrimEnd(TrimStart(s))

\* str::split(","): the pieces between the commas, empty pieces included
RECURSIVE Split(_)
Split(s) ==
    IF \A i \in DOMAIN s : s[i] # Comma
    THEN <<s>>
    ELSE LET i == CHOOSE j \in DOMAIN s :
                      s[j] = Comma /\ \A k \in 1..(j - 1) : s[k] # Comma
         IN  <<SubSeq(s, 1, i - 1)>> \o Split(SubSeq(s, i + 1, Len(s)))

\* a variant of the match below with two arms exchanged
abi_match_swapped(abi) ==
    CASE abi = <<"arm64-v8a">>   -> Some("aarch64-linux-android")
      [] abi = <<"armeabi-v7a">> -> Some("arm-linux-androideabi")
      [] abi = <<"armeabi">>     -> Some("armv7-linux-androideabi")
      [] abi = <<"x86">>         -> Some("i686-linux-android")
      [] OTHER                   -> None

\* the closure given to filter_map
abi_match(abi) ==
    CASE abi = <<"arm64-v8a">>   -> Some("aarch64-linux-android")
      [] abi = <<"armeabi-v7a">> -> Some("armv7-linux-androideabi")
      [] abi = <<"armeabi">>     -> Some("arm-linux-androideabi")
      [] abi = <<"x86">>         -> Some("i686-linux-android")
      [] OTHER                   -> None

\* Iterator::filter_map(..).collect(): the Some values, in iteration order
RECURSIVE filter_map_abi(_)
filter_map_abi(toks) ==
    IF toks = <<>> THEN <<>>
    ELSE abi_match(Head(toks)) \o filter_map_abi(Tail(toks))

from_id(out) ==
    IF out.status = "io_error" THEN [state |-> "err", supported_targets |-> <<>>]
    ELSE IF out.status = "bad_utf8" THEN [state |-> "err", supported_targets |-> <<>>]
    ELSE [state |-> "ok",
          supported_targets |-> filter_map_abi(Split(Trim(out.stdout)))]

GetpropOutcomes ==
    { [status |-> "ok", stdout |-> s] : s \in SeqsUpTo(Symbols, MaxOut) }
    \cup { [status |-> st, stdout |-> <<>>] : st \in {"io_error", "bad_utf8"} }

AndroidFromId ==
    /\ from_id_result.state = "none"
    /\ from_id_result' = from_id(getprop)
    /\ UNCHANGED <<getprop, exceptAbi>>

(***************************************************************************)
(* Devices, platforms and the compatibility double dispatch                *)
(***************************************************************************)
AndroidTriples ==
    {"aarch64-linux-android", "armv7-linux-androideabi",
     "arm-linux-androideabi", "i686-linux-android"}

PlatformIds == {"p1", "p2"}

\* Dinghy::discover_platforms: the kind of platform built for a configured triple
IosTriples == {"aarch64-apple-ios"}      \* the triples whose text ends with "-ios"

PlatformKind(rustc_triple) ==
    IF rustc_triple = None THEN "host"
    ELSE IF rustc_triple[1] \in IosTriples THEN "ios"
    ELSE "regular"

\* (rustc triple, toolchain triple) of the configured regular platforms
RegularTriples ==
    { <<"armv7-linux-androideabi", "arm-linux-androideabi">>,
      <<"aarch64-linux-android", "aarch64-linux-android">>,
      <<"armv7-unknown-linux-gnueabihf", "arm-linux-gnueabihf">> }

Platforms ==
    { [kind |-> PlatformKind(Some(t[1])), id |-> i,
       rustc_triple |-> Some(t[1]), tc_triple |-> t[2]] :
         t \in RegularTriples, i \in PlatformIds }
    \cup { [kind |-> PlatformKind(Some(t)), id |-> i,
            rustc_triple |-> Some(t), tc_triple |-> ""] :
              t \in IosTriples, i \in PlatformIds }
    \cup { [kind |-> PlatformKind(None), id |-> i,
            rustc_triple |-> None, tc_triple |-> ""] : i \in PlatformIds }

AndroidDevices ==
    { [kind |-> "android", id |-> "serial", supported_targets |-> s, platform |-> None] :
        s \in SeqsUpTo(AndroidTriples, MaxTargets) }

\* SshDeviceManager::devices: one device per configured entry
SshDevices ==
    { [kind |-> "ssh", id |-> "board", supported_targets |-> <<>>, platform |-> pl] :
        pl \in {None} \cup { Some(i) : i \in PlatformIds } }

Devices == AndroidDevices \cup SshDevices

\* a variant of the Android predicate that reads the rustc triple of the platform
AndroidDevice_compares_rustc_triple(d, p) ==
    \E i \in DOMAIN d.supported_targets : Some(d.supported_targets[i]) = p.rustc_triple

\* trait DeviceCompatibility: the provided methods
default_is_compatible_with_regular_platform(d, p) == FALSE
default_is_compatible_with_host_platform(d, p)    == FALSE
default_is_compatible_with_ios_platform(d, p)     == FALSE

AndroidDevice_is_compatible_with_regular_platform(d, p) ==
    \E i \in DOMAIN d.supported_targets : d.supported_targets[i] = p.tc_triple

SshDevice_is_compatible_with_regular_platform(d, p) ==
    IF d.platform = None THEN FALSE ELSE d.platform[1] = p.id

\* method resolution: the impl's method where the impl gives one, else the provided one
is_compatible_with_regular_platform(d, p) ==
    CASE d.kind = "android" -> AndroidDevice_is_compatible_with_regular_platform(d, p)
      [] d.kind = "ssh"     -> SshDevice_is_compatible_with_regular_platform(d, p)
      [] OTHER              -> default_is_compatible_with_regular_platform(d, p)

is_compatible_with_host_platform(d, p) ==
    default_is_compatible_with_host_platform(d, p)

is_compatible_with_ios_platform(d, p) ==
    default_is_compatible_with_ios_platform(d, p)

\* a platform that asks the predicate of another kind
IosPlatform_asks_regular(p, d) == is_compatible_with_regular_platform(d, p)

RegularPlatform_is_compatible_with(p, d) == is_compatible_with_regular_platform(d, p)
IosPlatform_is_compatible_with(p, d)     == is_compatible_with_ios_platform(d, p)
HostPlatform_is_compatible_with(p, d)    == is_compatible_with_host_platform(d, p)

Platform_is_compatible_with(p, d) ==
    CASE p.kind = "regular" -> RegularPlatform_is_compatible_with(p, d)
      [] p.kind = "ios"     -> IosPlatform_is_compatible_with(p, d)
      [] p.kind = "host"    -> HostPlatform_is_compatible_with(p, d)

NoPlatform == [kind |-> "none", id |-> "", rustc_triple |-> None, tc_triple |-> ""]

IsCompatibleWith(p) ==
    /\ compat.state = "none"
    /\ compat' = [state |-> "done", platform |-> p, target |-> "",
                  result |-> Platform_is_compatible_with(p, device)]
    /\ UNCHANGED <<device, exceptCompat>>

\* trait Device (first crate layout): can_run and what it rests on
rustc_triple_guess(d) == None

default_can_run(d, target) ==
    IF rustc_triple_guess(d) # None THEN rustc_triple_guess(d)[1] = target ELSE TRUE

AndroidDevice_can_run(d, target) ==
    \E i \in DOMAIN d.supported_targets : d.supported_targets[i] = target

can_run(d, target) ==
    CASE d.kind = "android" -> AndroidDevice_can_run(d, target)
      [] OTHER              -> default_can_run(d, target)

Targets == AndroidTriples \cup {"armv7-unknown-linux-gnueabihf"}

CanRun(target) ==
    /\ compat.state = "none"
    /\ compat' = [state |-> "can_run", platform |-> NoPlatform, target |-> target,
                  result |-> can_run(device, target)]
    /\ UNCHANGED <<device, exceptCompat>>

(***************************************************************************)
(* Overlayer::overlay: the candidate roots, the overlays found, the         *)
(* deduplication                                                            *)
(***************************************************************************)
OverlayPlatformId == "p1"
OverlayIds        == {"A", "B"}

\* the directories of the model: a chain below the root, and one beside it
Chain     == <<"a", "b", "c", "d">>
ChainDirs == { SubSeq(Chain, 1, k) : k \in 0..MaxDepth }
HomeDirs  == { SubSeq(Chain, 1, 1), <<"h">> }

\* Path::parent
parent(p) == IF p = <<>> THEN None ELSE Some(SubSeq(p, 1, Len(p) - 1))

\* <dir>/.dinghy/overlay/<platform-id>
OverlayRoot(dir) == dir \o <<".dinghy", "overlay", OverlayPlatformId>>

\* the while loop of Overlayer::overlay
RECURSIVE walk_up(_, _)
walk_up(current_path, path_to_try) ==
    IF parent(current_path) # None
    THEN walk_up(parent(current_path)[1], Append(path_to_try, OverlayRoot(current_path)))
    ELSE path_to_try

\* the candidate list once the home directory is added
path_to_try_of(target, home_dir) ==
    LET up == walk_up(target, <<>>) IN
    IF home_dir = None THEN up
    ELSE IF \E i \in DOMAIN up : up[i] = OverlayRoot(home_dir[1]) THEN up
    ELSE Append(up, OverlayRoot(home_dir[1]))

\* the enumerations of a finite set, each in one of the orders an unordered
\* container may yield
Perms(S) ==
    { f \in [1..Cardinality(S) -> S] : \A i, j \in DOMAIN f : i # j => f[i] # f[j] }

Overlay(id, path) == [id |-> id, path |-> path, scope |-> "Application"]

ConfPath(id) == <<"opt", id>>

\* Overlayer::from_conf: the configured overlays, in hash-map order
from_conf(ids) ==
    { [i \in DOMAIN f |-> Overlay(f[i], ConfPath(f[i]))] : f \in Perms(ids) }

OverlayDirContents ==
    { [state |-> st, entries |-> {}] : st \in {"missing", "unreadable"} }
    \cup { [state |-> "ok", entries |-> e] : e \in (SUBSET OverlayIds) \ {{}} }

ReadDir(fs, root) ==
    IF root \in DOMAIN fs THEN fs[root] ELSE [state |-> "missing", entries |-> {}]

\* Overlayer::from_directory: an error, or the sub-directories in read_dir order
from_directory(fs, root) ==
    IF ReadDir(fs, root).state # "ok"
    THEN { [ok |-> FALSE, overlays |-> <<>>] }
    ELSE { [ok |-> TRUE,
            overlays |-> [i \in DOMAIN f |-> Overlay(f[i], root \o <<f[i]>>)]] :
              f \in Perms(ReadDir(fs, root).entries) }

unwrap_or_default(r) == IF r.ok THEN r.overlays ELSE <<>>

\* flat_map over path_to_try: every list the directories can yield together
RECURSIVE flat_map_dirs(_, _)
flat_map_dirs(fs, roots) ==
    IF roots = <<>> THEN { <<>> }
    ELSE { unwrap_or_default(r) \o rest :
             r \in from_directory(fs, Head(roots)), rest \in flat_map_dirs(fs, Tail(roots)) }

\* a deduplication that lets the last occurrence of an id win
RECURSIVE unique_by_id_last(_)
unique_by_id_last(overlays) ==
    IF overlays = <<>> THEN <<>>
    ELSE IF \E i \in 2..Len(overlays) : overlays[i].id = Head(overlays).id
         THEN unique_by_id_last(Tail(overlays))
         ELSE <<Head(overlays)>> \o unique_by_id_last(Tail(overlays))

\* Itertools::unique_by(|overlay| overlay.id): an element passes when its key
\* was not seen before
RECURSIVE unique_by_seen(_, _)
unique_by_seen(overlays, seen) ==
    IF overlays = <<>> THEN <<>>
    ELSE IF Head(overlays).id \in seen
         THEN unique_by_seen(Tail(overlays), seen)
         ELSE <<Head(overlays)>>
              \o unique_by_seen(Tail(overlays), seen \cup {Head(overlays).id})

unique_by_id(overlays) == unique_by_seen(overlays, {})

NoOverlayResult == [state |-> "none", path_to_try |-> <<>>, overlays |-> <<>>]

\* Overlayer::overlay, up to the list it hands to apply_overlay
OverlayerOverlay ==
    /\ overlay_result.state = "none"
    /\ LET path_to_try == path_to_try_of(target_path, home) IN
       \E conf \in from_conf(conf_overlays) :
       \E found \in flat_map_dirs(overlay_fs, path_to_try) :
          overlay_result' = [state |-> "applied",
                             path_to_try |-> path_to_try,
                             overlays |-> unique_by_id(conf \o found)]
    /\ UNCHANGED <<target_path, home, conf_overlays, overlay_fs, exceptOverlay>>

(***************************************************************************)
(* Overlayer::lib_name                                                     *)
(***************************************************************************)
Chars == {"l", "i", "b", ".", "s", "o", "f"}

LibFooSo    == <<"l", "i", "b", "f", "o", "o", ".", "s", "o">>
LibFooSo12  == LibFooSo \o <<".", "1", ".", "2">>
LibSo       == <<"l", "i", "b", ".", "s", "o">>
LastComponents == SeqsUpTo(Chars, MaxName) \cup {LibFooSo, LibFooSo12, LibSo}

\* Path::file_name: nothing when the path ends in no normal component
file_name(last) ==
    IF last \in {<<>>, <<".">>, <<".", ".">>} THEN None ELSE Some(last)

\* str::starts_with
starts_with(str, pat) ==
    Len(str) >= Len(pat) /\ SubSeq(str, 1, Len(pat)) = pat

\* str::find: the byte offset of the first match
find(str, pat) ==
    LET at == { k \in 0..(Len(str) - Len(pat)) : SubSeq(str, k + 1, k + Len(pat)) = pat }
    IN  IF at = {} THEN None ELSE Some(CHOOSE k \in at : \A j \in at : k <= j)

\* a lib_name that leaves out the comparison of the two indices
lib_name_unchecked(last) ==
    IF file_name(last) = None THEN [state |-> "err", name |-> <<>>]
    ELSE LET name        == file_name(last)[1]
             start_index == IF starts_with(name, <<"l", "i", "b">>) THEN 3 ELSE 0
             end_index   == IF find(name, <<".", "s", "o">>) = None
                            THEN Len(name) ELSE find(name, <<".", "s", "o">>)[1]
         IN  [state |-> "ok", name |-> SubSeq(name, start_index + 1, end_index)]

\* Overlayer::lib_name; a slice whose start lies past its end panics
lib_name(last) ==
    IF file_name(last) = None THEN [state |-> "err", name |-> <<>>]
    ELSE LET name        == file_name(last)[1]
             start_index == IF starts_with(name, <<"l", "i", "b">>) THEN 3 ELSE 0
             end_index   == IF find(name, <<".", "s", "o">>) = None
                            THEN Len(name) ELSE find(name, <<".", "s", "o">>)[1]
         IN  IF start_index = end_index THEN [state |-> "err", name |-> <<>>]
             ELSE IF start_index > end_index THEN [state |-> "panic", name |-> <<>>]
             ELSE [state |-> "ok", name |-> SubSeq(name, start_index + 1, end_index)]

LibName ==
    /\ lib_result.state = "none"
    /\ lib_result' = lib_name(lib_file)
    /\ UNCHANGED <<lib_file, exceptLib>>

(***************************************************************************)
(* The remote place of a bundle                                            *)
(***************************************************************************)
AppNames == {"t1", "t2"}
ExeDirs  == { <<"target", "debug">>, <<"target", "release">>, <<"target", "debug", "deps">> }

\* the executables cargo hands over
Exes == { dir \o <<app>> : dir \in ExeDirs, app \in AppNames }

\* Path::file_name of a path with a last component
FileName(path) == path[Len(path)]

\* make_app: <parent of exe>/dinghy/<app_name>
bundle_path_of(exe) == SubSeq(exe, 1, Len(exe) - 1) \o <<"dinghy", FileName(exe)>>

\* what make_app returns: the bundle directory (SSH), the bundled executable (Android)
make_app_returns(kind, exe) ==
    IF kind = "android" THEN bundle_path_of(exe) \o <<FileName(exe)>>
    ELSE bundle_path_of(exe)

\* what make_linux_app returns: <parent of exe>/dinghy/dinghy
make_linux_app_returns(exe) == SubSeq(exe, 1, Len(exe) - 1) \o <<"dinghy", "dinghy">>

SshConfs ==
    { [kind |-> "ssh", path |-> pa, port |-> po] :
        pa \in {None, Some(<<"srv">>)}, po \in {None, Some("2222")} }

DeployDevices == { [kind |-> "android", path |-> None, port |-> None] } \cup SshConfs

\* self.conf.path.clone().unwrap_or("/tmp".into())
ssh_prefix(d) == IF d.path = None THEN <<"tmp">> ELSE d.path[1]

\* a derivation that keeps the whole host path below the prefix
ssh_target_path_whole(d, app) == ssh_prefix(d) \o <<"dinghy">> \o app

\* SshDevice: <prefix>/dinghy/<file name of the bundle>
ssh_target_path(d, app) == ssh_prefix(d) \o <<"dinghy", FileName(app)>>

\* AndroidDevice: /data/local/tmp/dinghy/<file name of the executable>
android_target_dir(exe) == <<"data", "local", "tmp", "dinghy", FileName(exe)>>

remote_bundle(d, host) ==
    IF d.kind = "android" THEN android_target_dir(host) ELSE ssh_target_path(d, host)

NoRemotePaths == [state |-> "none", a |-> <<>>, b |-> <<>>, twice |-> <<>>]

DeriveRemote ==
    /\ remote_paths.state = "none"
    /\ remote_paths' = [state |-> "done",
                        a     |-> remote_bundle(path_dev, host_a),
                        b     |-> remote_bundle(path_dev, host_b),
                        twice |-> remote_bundle(path_dev, remote_bundle(path_dev, host_a))]
    /\ UNCHANGED <<path_dev, host_a, host_b, exceptPath>>

(***************************************************************************)
(* Bundling: make_app and rec_copy                                         *)
(***************************************************************************)
SrcFiles ==
    { <<"Cargo.toml">>, <<"src", "main.rs">>, <<"main.rs">>, <<"target", "debug", "t1">> }
DynamicLibs == { "libfoo.so" }

\* the package roots of the model: one keeps its code below src/, one beside
\* Cargo.toml
SourceTrees == { SrcFiles \ {<<"main.rs">>}, SrcFiles \ {<<"src", "main.rs">>} }

\* the file name of runnable.exe
BundleExe == "t1"

\* path.components().any(|comp| comp.as_ref() == "target")
has_target(path) == \E i \in DOMAIN path : path[i] = "target"

\* the files a developer edits
Editable == { f \in SrcFiles : ~has_target(f) }

Meta(len, mtime) == [len |-> len, mtime |-> mtime]

\* a copy condition that looks at the times only
needs_copy_by_time(entry, target) ==
    \/ target = None
    \/ target[1].mtime < entry.mtime

\* the copy condition of rec_copy, for a source file and what is at its target
needs_copy(entry, target) ==
    \/ target = None
    \/ target[1].len # entry.len
    \/ target[1].mtime < entry.mtime

\* rec_copy(src, dst, _): the files below dst afterwards and the number of
\* fs::copy calls made; a copy carries the time it was made
rec_copy(src, dst, now) ==
    LET copied == { f \in DOMAIN src : ~has_target(f) /\ needs_copy(src[f], dst[f]) }
    IN  [files  |-> [f \in DOMAIN dst |->
                       IF f \in copied THEN Some(Meta(src[f].len, now)) ELSE dst[f]],
         copies |-> Cardinality(copied)]

\* ignore::WalkBuilder with git_ignore(!copy_ignored_test_data) and
\* add_ignore(<src>/.dinghyignore): the entries the walk yields
NoWalker == [git |-> {}, dinghy |-> {}, copy_ignored_test_data |-> FALSE]

walk_ignores(w, f) ==
    \/ f \in w.dinghy
    \/ ~w.copy_ignored_test_data /\ f \in w.git

walker_build(src, w) ==
    LET seen == { f \in DOMAIN src : ~walk_ignores(w, f) } IN
    [f \in seen |-> src[f]]

\* a bundle directory: where it is below the directory of the executable,
\* the executable in it, the libraries in it, where the sources went and at
\* which relative paths, whether test_data/ is there, and what else is there
Bundle(exists, root, exe, libs, src_root, files, test_data, extra) ==
    [exists |-> exists, root |-> root, exe |-> exe, libs |-> libs,
     src_root |-> src_root, files |-> files, test_data |-> test_data, extra |-> extra]

NoFiles == [f \in SrcFiles |-> None]

EmptyBundle == Bundle(FALSE, <<>>, None, {}, <<>>, NoFiles, FALSE, {})

\* copy_test_data: fs::create_dir_all(app_path.join("test_data")); no
\* test_data is configured in the model
copy_test_data(b) == TRUE

\* Project::copy_test_data
Project_copy_test_data(b) == TRUE

\* a make_app that does not remove the previous bundle
make_app_keeps_previous(b, src, now) ==
    LET root == <<"dinghy", BundleExe>>
        r    == rec_copy(src, b.files, now)
    IN  [bundle |-> Bundle(TRUE, root, Some([name |-> BundleExe, mtime |-> now]),
                           b.libs \cup DynamicLibs, root, r.files,
                           Project_copy_test_data(b), b.extra),
         copies |-> r.copies]

\* make_app of dinghy-lib: the previous bundle is removed, then the
\* executable, the dynamic libraries and the sources are copied
make_app(b, src, now) ==
    LET root == <<"dinghy", BundleExe>>
        r    == rec_copy(src, EmptyBundle.files, now)
    IN  [bundle |-> Bundle(TRUE, root, Some([name |-> BundleExe, mtime |-> now]),
                           DynamicLibs, root, r.files,
                           Project_copy_test_data(b), {}),
         copies |-> r.copies]

\* AndroidDevice::make_app of the cargo-dinghy crate: the previous bundle is
\* removed, then the executable and the sources are copied
AndroidDevice_make_app(b, src, now) ==
    LET root == <<"dinghy">>
        r    == rec_copy(src, EmptyBundle.files, now)
    IN  [bundle |-> Bundle(TRUE, root, Some([name |-> BundleExe, mtime |-> now]),
                           {}, root \o <<"src">>, r.files, copy_test_data(b), {}),
         copies |-> r.copies]

\* make_linux_app: the executable and the sources are copied over the
\* bundle that is there
make_linux_app(b, src, now) ==
    LET root == <<"dinghy", "dinghy">>
        r    == rec_copy(src, b.files, now)
    IN  [bundle |-> Bundle(TRUE, root, Some([name |-> "dinghy", mtime |-> now]),
                           b.libs, root, r.files, copy_test_data(b), b.extra),
         copies |-> r.copies]

Makers == {"make_app", "AndroidDevice::make_app", "make_linux_app"}

Device_make_app(m, b, src, now) ==
    CASE m = "make_app"                -> make_app(b, src, now)
      [] m = "AndroidDevice::make_app" -> AndroidDevice_make_app(b, src, now)
      [] m = "make_linux_app"          -> make_linux_app(b, src, now)

\* what an earlier invocation, on an earlier state of the package, left at
\* the bundle path
StaleBundle(m) ==
    LET made == Device_make_app(m, EmptyBundle, [f \in {} |-> Meta(1, 0)], 0).bundle
    IN  [made EXCEPT !.extra = {"stale.txt"}]

NoMake == [n |-> 0, copies |-> 0, dirty |-> {}]

\* a developer changes the content of one source file
EditFile(f, len) ==
    /\ clock < MaxClock
    /\ f \in DOMAIN source
    /\ source' = [source EXCEPT ![f] = Meta(len, clock)]
    /\ dirty' = dirty \cup {f}
    /\ clock' = clock + 1
    /\ UNCHANGED <<maker, bundle, make, exceptBundle>>

\* the bundle step
MakeApp ==
    /\ clock < MaxClock
    /\ LET r == Device_make_app(maker, bundle, source, clock) IN
       /\ bundle' = r.bundle
       /\ make' = [n |-> make.n + 1, copies |-> r.copies, dirty |-> dirty]
    /\ dirty' = {}
    /\ clock' = clock + 1
    /\ UNCHANGED <<maker, source, exceptBundle>>

\* rec_copy(src, dst, copy_ignored_test_data) on a destination in any state
RecCopy ==
    /\ make.n = 0
    /\ clock < MaxClock
    /\ LET r == rec_copy(walker_build(source, walker), bundle.files, clock) IN
         /\ bundle' = [bundle EXCEPT !.exists = TRUE, !.files = r.files]
         /\ make' = [n |-> 1, copies |-> r.copies, dirty |-> {}]
    /\ clock' = clock + 1
    /\ UNCHANGED <<maker, source, dirty, exceptBundle>>

(***************************************************************************)
(* The device operations: install_app, run_app, clean_app                  *)
(***************************************************************************)
\* Command::status(): exit status zero, exit status non-zero, or an error
\* because the program could not be started
Outcomes == {"ok", "fail", "spawn_err"}

\* one subprocess: what was launched, the remote path it names, how it ended
Proc(cmd, target, outcome) == [cmd |-> cmd, target |-> target, outcome |-> outcome]

OpResult(name, procs, result, line, flags) ==
    [name |-> name, procs |-> procs, result |-> result, line |-> line, flags |-> flags]

NoCli ==
    [sub |-> "none", target |-> None, toolchain |-> FALSE, cleanup |-> FALSE,
     debugger |-> FALSE, device |-> FALSE]

NoDrv == [pc |-> "start", target |-> "", compiles |-> 0, result |-> "none", error |-> "",
          runnables |-> 0, index |-> 0]

NoCall == [args |-> <<>>, envs |-> <<>>, tty |-> FALSE]

NoOp == OpResult("none", <<>>, "none", <<>>, {})

\* the operation goes on after a checked subprocess only when it exited with zero
checked(outcome) == outcome = "ok"

\* `.status()?` with the exit status dropped: only a program that could not
\* be started stops the operation
started(outcome) == outcome # "spawn_err"

\* an Android install that does not look at the exit status of adb push
AndroidDevice_install_app_unchecked_push(exe, o) ==
    LET target_dir  == android_target_dir(exe)
        target_exec == target_dir \o <<FileName(exe)>>
        rm    == Proc("adb shell rm", target_dir, o[1])
        push  == Proc("adb push", target_dir, o[2])
        chmod == Proc("adb shell chmod", target_exec, o[3])
    IN  IF ~started(o[1]) THEN OpResult("install_app", <<rm>>, "err", <<>>, {})
        ELSE IF ~started(o[2]) THEN OpResult("install_app", <<rm, push>>, "err", <<>>, {})
        ELSE OpResult("install_app", <<rm, push, chmod>>,
                      IF checked(o[3]) THEN "ok" ELSE "err", <<>>, {})

\* AndroidDevice::install_app: rm -rf (exit status dropped), push, chmod
AndroidDevice_install_app(exe, o) ==
    LET target_dir  == android_target_dir(exe)
        target_exec == target_dir \o <<FileName(exe)>>
        rm    == Proc("adb shell rm", target_dir, o[1])
        push  == Proc("adb push", target_dir, o[2])
        chmod == Proc("adb shell chmod", target_exec, o[3])
    IN  IF ~started(o[1]) THEN OpResult("install_app", <<rm>>, "err", <<>>, {})
        ELSE IF ~checked(o[2]) THEN OpResult("install_app", <<rm, push>>, "err", <<>>, {})
        ELSE OpResult("install_app", <<rm, push, chmod>>,
                      IF checked(o[3]) THEN "ok" ELSE "err", <<>>, {})

\* an Android clean that removes the executable only
AndroidDevice_clean_app_exe_only(exe, o) ==
    LET rm == Proc("adb shell rm", android_target_dir(exe) \o <<FileName(exe)>>, o[1])
    IN  OpResult("clean_app", <<rm>>, IF checked(o[1]) THEN "ok" ELSE "err", <<>>, {})

\* AndroidDevice::clean_app: rm -rf, checked
AndroidDevice_clean_app(exe, o) ==
    LET rm == Proc("adb shell rm", android_target_dir(exe), o[1])
    IN  OpResult("clean_app", <<rm>>, IF checked(o[1]) THEN "ok" ELSE "err", <<>>, {})

\* the words of a remote command line
Word(tag, value) == <<tag, value>>
Words(tag, strs) == [i \in DOMAIN strs |-> Word(tag, <<strs[i]>>)]

\* an Android run that hands the caller's arguments over before the executable
AndroidDevice_run_line_args_first(exe, args, envs) ==
    LET target_dir == android_target_dir(exe)
        target_exe == target_dir \o <<FileName(exe)>>
    IN  <<Word("cd", <<>>), Word("dir", target_dir), Word(";", <<>>), Word("DINGHY=1", <<>>)>>
        \o Words("env", envs) \o Words("arg", args) \o <<Word("exe", target_exe)>>

\* AndroidDevice::run_app: the command line adb shell hands to the device
AndroidDevice_run_line(exe, args, envs) ==
    LET target_dir == android_target_dir(exe)
        target_exe == target_dir \o <<FileName(exe)>>
    IN  <<Word("cd", <<>>), Word("dir", target_dir), Word(";", <<>>), Word("DINGHY=1", <<>>)>>
        \o Words("env", envs) \o <<Word("exe", target_exe)>> \o Words("arg", args)

AndroidDevice_run_app(exe, args, envs, o) ==
    LET run == Proc("adb shell run", android_target_dir(exe), o[1])
    IN  OpResult("run_app", <<run>>, IF checked(o[1]) THEN "ok" ELSE "err",
                 AndroidDevice_run_line(exe, args, envs), {})

\* an SSH install that sends the bundle with two rsync runs
SshDevice_install_app_two_rsync(d, app_dir, o) ==
    LET target   == ssh_target_path(d, app_dir)
        mkdir    == Proc("ssh mkdir", ssh_prefix(d) \o <<"dinghy">>, o[1])
        rsync(k) == Proc("rsync", target, o[k])
    IN  IF ~checked(o[2]) THEN OpResult("install_app", <<mkdir, rsync(2)>>, "err", <<>>, {})
        ELSE OpResult("install_app", <<mkdir, rsync(2), rsync(3)>>,
                      IF checked(o[3]) THEN "ok" ELSE "err", <<>>, {})

\* SshDevice::install_app: ssh mkdir -p (result dropped), then one rsync
SshDevice_install_app(d, app_dir, o) ==
    LET mkdir == Proc("ssh mkdir", ssh_prefix(d) \o <<"dinghy">>, o[1])
        rsync == Proc("rsync", ssh_target_path(d, app_dir), o[2])
    IN  OpResult("install_app", <<mkdir, rsync>>,
                 IF checked(o[2]) THEN "ok" ELSE "err", <<>>, {})

\* SshDevice::clean_app: ssh rm -rf, checked
SshDevice_clean_app(d, app_dir, o) ==
    LET rm == Proc("ssh rm", ssh_target_path(d, app_dir), o[1])
    IN  OpResult("clean_app", <<rm>>, IF checked(o[1]) THEN "ok" ELSE "err", <<>>, {})

\* SshDevice::run_app: the command line ssh hands to the remote shell
SshDevice_run_line(d, app_dir, args, envs) ==
    LET path == ssh_target_path(d, app_dir)
        exe  == path \o <<FileName(app_dir)>>
    IN  <<Word("cd", <<>>), Word("dir", path), Word(";", <<>>), Word("DINGHY=1", <<>>)>>
        \o Words("env", envs)
        \o <<Word("LD_LIBRARY_PATH", SubSeq(exe, 1, Len(exe) - 1)), Word("exe", exe)>>
        \o Words("arg", args)

\* the options ssh is started with: the port when one is configured, a
\* terminal when stdout is one
SshDevice_run_flags(d, tty) ==
    (IF d.port # None THEN {"-p"} ELSE {}) \cup (IF tty THEN {"-t"} ELSE {})

SshDevice_run_app(d, app_dir, args, envs, tty, o) ==
    LET run == Proc("ssh run", ssh_target_path(d, app_dir), o[1])
    IN  OpResult("run_app", <<run>>, IF checked(o[1]) THEN "ok" ELSE "err",
                 SshDevice_run_line(d, app_dir, args, envs), SshDevice_run_flags(d, tty))

\* what a bundle puts on the device, and a file an earlier bundle put there
Staged     == {"t1", "libfoo.so"}
OldRemote  == {"old.txt"}

\* the remote bundle directory after the subprocesses of an operation: a
\* successful rm -rf empties it, a successful push or rsync adds the bundle
\* to what is there; a subprocess that fails is taken to change nothing
\* an rsync that deletes what the bundle does not hold
RECURSIVE remote_after_rsync_delete(_, _)
remote_after_rsync_delete(r, procs) ==
    IF procs = <<>> THEN r
    ELSE LET p == Head(procs)
             next == IF p.outcome # "ok" THEN r
                     ELSE IF p.cmd \in {"adb shell rm", "ssh rm"} THEN {}
                     ELSE IF p.cmd = "adb push" THEN r \cup Staged
                     ELSE IF p.cmd = "rsync" THEN Staged
                     ELSE r
         IN  remote_after_rsync_delete(next, Tail(procs))

RECURSIVE remote_after(_, _)
remote_after(r, procs) ==
    IF procs = <<>> THEN r
    ELSE LET p == Head(procs)
             next == IF p.outcome # "ok" THEN r
                     ELSE IF p.cmd \in {"adb shell rm", "ssh rm"} THEN {}
                     ELSE IF p.cmd \in {"adb push", "rsync"} THEN r \cup Staged
                     ELSE r
         IN  remote_after(next, Tail(procs))

\* debug_app of AndroidDevice and of SshDevice: unimplemented!()
Device_debug_app(d) == OpResult("debug_app", <<>>, "panic", <<>>, {})

ArgWords == {"a1", "a2"}
EnvWords == {"E=1", "F=2"}

\* the driver installs a bundle it has made, runs what it has installed and
\* cleans up what it has run; an error ends the run
InstallApp(o) ==
    /\ op.name = "none"
    /\ op' = IF dev.kind = "android" THEN AndroidDevice_install_app(app_path, o)
             ELSE SshDevice_install_app(dev, app_path, o)
    /\ call' = NoCall
    /\ remote' = remote_after(remote, op'.procs)
    /\ UNCHANGED <<dev, app_path, exceptDeploy>>

RunApp(args, envs, tty, o) ==
    /\ op.name = "install_app" /\ op.result = "ok"
    /\ op' = IF dev.kind = "android" THEN AndroidDevice_run_app(app_path, args, envs, o)
             ELSE SshDevice_run_app(dev, app_path, args, envs, tty, o)
    /\ call' = [args |-> args, envs |-> envs, tty |-> tty]
    /\ remote' = remote_after(remote, op'.procs)
    /\ UNCHANGED <<dev, app_path, exceptDeploy>>

\* the driver debugs what it has installed
DebugApp ==
    /\ op.name = "install_app" /\ op.result = "ok"
    /\ op' = Device_debug_app(dev)
    /\ call' = NoCall
    /\ UNCHANGED <<dev, app_path, remote, exceptDeploy>>

CleanApp(o) ==
    /\ op.name = "run_app" /\ op.result = "ok"
    /\ op' = IF dev.kind = "android" THEN AndroidDevice_clean_app(app_path, o)
             ELSE SshDevice_clean_app(dev, app_path, o)
    /\ call' = NoCall
    /\ remote' = remote_after(remote, op'.procs)
    /\ UNCHANGED <<dev, app_path, exceptDeploy>>

(***************************************************************************)
(* The driver: run and prepare_and_run of cargo-dinghy                     *)
(***************************************************************************)
Subcommands == {"run", "test", "bench", "build"}

Cli(sub, target, toolchain, cleanup, debugger, found) ==
    [sub |-> sub, target |-> target, toolchain |-> toolchain, cleanup |-> cleanup,
     debugger |-> debugger, device |-> found]

\* AndroidDevice::target: arm-linux-androideabi when supported, else the
\* first supported target, else the empty string
AndroidDevice_target(d) ==
    IF \E i \in DOMAIN d.supported_targets : d.supported_targets[i] = "arm-linux-androideabi"
    THEN "arm-linux-androideabi"
    ELSE IF d.supported_targets # <<>> THEN d.supported_targets[1] ELSE ""

\* SshDevice::target
SshDevice_target(d) == "armv7-unknown-linux-gnueabihf"

Device_target(d) ==
    IF d.kind = "android" THEN AndroidDevice_target(d) ELSE SshDevice_target(d)

\* matches.value_of("TARGET").map(..).unwrap_or(d.target())
requested_target(c, d) == IF c.target # None THEN c.target[1] ELSE Device_target(d)

Failed(error) ==
    [drv EXCEPT !.pc = "done", !.result = "err", !.error = error]

\* a prepare_and_run that builds before it asks the device
PrepareUnchecked ==
    /\ drv.pc = "start"
    /\ cli.sub \in {"run", "test", "bench"}
    /\ drv' = IF ~cli.device THEN Failed("No device found")
              ELSE [drv EXCEPT !.pc = "checked", !.target = requested_target(cli, device)]
    /\ UNCHANGED <<cli, compatVars, bundleVars, deployVars, exceptRun>>

\* run / test / bench: device_from_cli, then the head of prepare_and_run
Prepare ==
    /\ drv.pc = "start"
    /\ cli.sub \in {"run", "test", "bench"}
    /\ drv' = IF ~cli.device THEN Failed("No device found")
              ELSE IF ~can_run(device, requested_target(cli, device))
              THEN Failed("device can not run target")
              ELSE [drv EXCEPT !.pc = "checked", !.target = requested_target(cli, device)]
    /\ UNCHANGED <<cli, compatVars, bundleVars, deployVars, exceptRun>>

\* build: the target and the toolchain are looked up; the device is not asked
BuildSubcommand ==
    /\ drv.pc = "start"
    /\ cli.sub = "build"
    /\ drv' = IF cli.target = None /\ ~cli.device
              THEN Failed("no toolchain nor device could be determined")
              ELSE IF ~cli.toolchain /\ ~cli.device
              THEN Failed("no toolchain nor device could be determined")
              ELSE [drv EXCEPT !.pc = "checked",
                               !.target = IF cli.target # None THEN cli.target[1]
                                          ELSE Device_target(device)]
    /\ UNCHANGED <<cli, compatVars, bundleVars, deployVars, exceptRun>>

\* start_remote_lldb of AndroidDevice and of SshDevice: unimplemented!()
Device_start_remote_lldb(d) == "panic"

\* lldbproxy: device_from_cli(..)?.start_remote_lldb()?
LldbProxy ==
    /\ drv.pc = "start"
    /\ cli.sub = "lldbproxy"
    /\ drv' = IF ~cli.device THEN Failed("No device found")
              ELSE [drv EXCEPT !.pc = "done", !.result = Device_start_remote_lldb(device),
                               !.error = "start_remote_lldb"]
    /\ UNCHANGED <<cli, compatVars, bundleVars, deployVars, exceptRun>>

\* the toolchain is made, then build() runs the compile step and returns the
\* runnables
Compile(tc_ok, build_ok, n) ==
    /\ drv.pc = "checked"
    /\ drv' = IF ~tc_ok THEN Failed("toolchain")
              ELSE IF ~build_ok
              THEN [Failed("build") EXCEPT !.compiles = drv.compiles + 1]
              ELSE [drv EXCEPT !.compiles = drv.compiles + 1,
                               !.runnables = IF cli.sub = "build" THEN 0 ELSE n,
                               !.pc = IF cli.sub = "build" THEN "done" ELSE "built",
                               !.result = IF cli.sub = "build" THEN "ok" ELSE "none"]
    /\ UNCHANGED <<cli, compatVars, bundleVars, deployVars, exceptRun>>

\* for t in runnable: make_app, install_app, debug_app or run_app, clean_app
DriverMakeApp ==
    drv.pc = "built" /\ drv.index < drv.runnables /\ make.n = drv.index /\ MakeApp

\* d.make_app(..)? returns an error: prepare_and_run returns it
DriverMakeAppFails ==
    /\ drv.pc = "built" /\ drv.index < drv.runnables /\ make.n = drv.index
    /\ op = NoOp
    /\ drv' = Failed("make_app")
    /\ UNCHANGED <<cli, compatVars, bundleVars, deployVars, exceptRun>>

DriverInstallApp(o) == drv.pc = "built" /\ make.n = drv.index + 1 /\ InstallApp(o)

DriverRunApp(args, o) ==
    drv.pc = "built" /\ ~cli.debugger /\ RunApp(args, <<>>, FALSE, o)

DriverDebugApp == drv.pc = "built" /\ cli.debugger /\ DebugApp

DriverCleanApp(o) == drv.pc = "built" /\ cli.cleanup /\ CleanApp(o)

\* a loop that goes on whatever the last operation returned
RunnableDone_any_result ==
    \/ op.name = "run_app" /\ ~cli.cleanup
    \/ op.name = "clean_app"

\* the last operation on a runnable went well
RunnableDone ==
    \/ op.name = "run_app" /\ op.result = "ok" /\ ~cli.cleanup
    \/ op.name = "clean_app" /\ op.result = "ok"

\* the loop goes to the next runnable
NextRunnable ==
    /\ drv.pc = "built"
    /\ RunnableDone
    /\ drv.index + 1 < drv.runnables
    /\ drv' = [drv EXCEPT !.index = @ + 1]
    /\ op' = NoOp
    /\ call' = NoCall
    /\ UNCHANGED <<cli, compatVars, bundleVars, dev, app_path, remote, exceptRun>>

\* prepare_and_run returns: an error of an operation with `?`, or Ok(()) after
\* the last operation of the last runnable; a panic ends the process
Return ==
    /\ drv.pc = "built"
    /\ \/ op.result \in {"err", "panic"}
       \/ RunnableDone /\ drv.index + 1 = drv.runnables
       \/ drv.runnables = 0
    /\ drv' = [drv EXCEPT !.pc = "done",
                          !.result = IF drv.runnables = 0 THEN "ok" ELSE op.result,
                          !.error = op.name]
    /\ UNCHANGED <<cli, compatVars, bundleVars, deployVars, exceptRun>>

(***************************************************************************)
(* The process environment and the wrapper scripts: RegularPlatform::build *)
(* and the toolchain set-up it calls                                       *)
(*                                                                         *)
(* A value of an environment variable is the sequence of the items that    *)
(* ":" separates; an item is a path.  A file name "<triple>-<tool>" is the  *)
(* two components <triple>, <tool>.                                        *)
(***************************************************************************)
EnvTriples   == {"t1", "t2"}
OverlayKinds == {"none", "plain", "pkgconfig"}
GLOB_ARGS    == <<"\"$@\"">>

\* a platform of the configuration: its id and triple, whether its toolchain
\* ships an `ar`, what its overlay directory holds, whether its configuration
\* sets LIBRARY_PATH
EnvPlatforms ==
    [ id : PlatformIds, rustc_triple : EnvTriples, has_ar : BOOLEAN,
      overlay : OverlayKinds, conf_env : BOOLEAN ]

tc_triple(p)    == IF p.rustc_triple = "t1" THEN "g1" ELSE "g2"
toolchain_root(p) == <<"toolchains", p.id>>
toolchain_bin(p)  == toolchain_root(p) \o <<"bin">>
toolchain_sysroot(p) == toolchain_root(p) \o <<"sysroot">>
overlay_work_dir(p)  == <<"proj", "target", p.rustc_triple, p.id, "overlay">>
overlay_path(p)      == <<"proj", ".dinghy", "overlay", p.id, "ov">>
configuration_env(p) == IF p.conf_env THEN <<"opt", p.id, "lib">> ELSE <<>>

G(name) == <<name, "">>
GlobalKeys ==
    { G(n) : n \in {"LIBRARY_PATH", "LD_LIBRARY_PATH", "TARGET_CC", "TARGET_AR",
                    "TARGET_SYSROOT", "PATH", "PKG_CONFIG_ALLOW_CROSS"} }
TargetKeys(t) ==
    { <<n, t>> : n \in {"CARGO_TARGET_LINKER", "PKG_CONFIG_LIBDIR", "PKG_CONFIG_LIBPATH",
                        "PKG_CONFIG_SYSROOT_DIR"} }
PrefixKeys == { <<"PKG_CONFIG_PREFIX", "ov">> }
Keys == GlobalKeys \cup UNION { TargetKeys(t) : t \in EnvTriples } \cup PrefixKeys

Unset      == [set |-> FALSE, val |-> <<>>]
Val(items) == [set |-> TRUE, val |-> items]
Items(v)   == { v.val[i] : i \in DOMAIN v.val }

NoEnv   == [k \in Keys |-> Unset]
NoShims == <<>>
project_root == <<"proj">>

\* env::set_var
set_env(e, k, items) == [e EXCEPT ![k] = Val(items)]

\* append_env: the old value, the separator, the new item
append_env(e, k, item) == [e EXCEPT ![k] = Val(e[k].val \o <<item>>)]

\* append_path_to_target_env: as append_env, on the triple-qualified key; a
\* variable that is not set yet gets the item alone
append_path_to_target_env(e, name, triple, item) ==
    [e EXCEPT ![<<name, triple>>] = Val(e[<<name, triple>>].val \o <<item>>)]

\* set_env_ifndef: a variable that is set keeps its value
set_env_ifndef(e, k, items) == IF e[k].set THEN e ELSE set_env(e, k, items)

path_between(from, to) == <<"from">> \o from \o <<"to">> \o to

target_shim_path(root, rustc_triple, id) == root \o <<"target", rustc_triple, id>>

write_file(files, path, content) ==
    [q \in DOMAIN files \cup {path} |-> IF q = path THEN content ELSE files[q]]

\* a create_shim that opens the script for appending
create_shim_append(files, root, rustc_triple, id, name, shell) ==
    LET shim == target_shim_path(root, rustc_triple, id) \o name
        old  == IF shim \in DOMAIN files THEN files[shim] ELSE <<>> IN
    [files |-> write_file(files, shim, old \o <<<<"#!/bin/sh">>, shell, <<>>>>), shim |-> shim]

\* create_shim: File::create truncates; "#!/bin/sh", the command, an empty line
create_shim(files, root, rustc_triple, id, name, shell) ==
    LET shim == target_shim_path(root, rustc_triple, id) \o name IN
    [files |-> write_file(files, shim, <<<<"#!/bin/sh">>, shell, <<>>>>), shim |-> shim]

\* setup_shim: the script, then the variable that names it
setup_shim(st, rustc_triple, id, var, name, shell) ==
    LET made == create_shim(st.shims, project_root, rustc_triple, id, name, shell) IN
    [env |-> set_env(st.env, var, <<made.shim>>), shims |-> made.files]

Toolchain_setup_cc(st, rustc_triple, id, compiler_command) ==
    setup_shim(st, rustc_triple, id, G("TARGET_CC"), <<"cc">>,
               compiler_command \o GLOB_ARGS)

Toolchain_setup_linker(st, rustc_triple, id, linker_command) ==
    setup_shim(st, rustc_triple, id, <<"CARGO_TARGET_LINKER", rustc_triple>>, <<"linker">>,
               linker_command \o GLOB_ARGS)

Toolchain_setup_ar(st, ar_command) ==
    [st EXCEPT !.env = set_env(st.env, G("TARGET_AR"), <<ar_command>>)]

ToolchainConfig_executable(p, name_without_triple) ==
    toolchain_bin(p) \o <<tc_triple(p), name_without_triple>>

\* the files of <toolchain>/bin
bin_entries(p) == IF p.has_ar THEN <<"gcc", "ar">> ELSE <<"gcc">>

\* Overlayer::apply_overlay on the overlay the platform's directory holds
apply_overlay(st, p) ==
    LET e1 == append_path_to_target_env(st.env, "PKG_CONFIG_LIBDIR", p.rustc_triple,
                                        overlay_work_dir(p))
        e2 == IF p.overlay = "pkgconfig"
              THEN append_path_to_target_env(e1, "PKG_CONFIG_LIBDIR", p.rustc_triple,
                                             overlay_path(p) \o <<"pkgconfig">>)
              ELSE e1
        e3 == IF p.overlay = "none" THEN e1
              ELSE set_env_ifndef(e2, <<"PKG_CONFIG_PREFIX", "ov">>,
                                  <<path_between(toolchain_sysroot(p), overlay_path(p))>>) IN
    [st EXCEPT !.env = e3]

ToolchainConfig_setup_pkg_config(st, p) ==
    LET e1 == set_env(st.env, G("PKG_CONFIG_ALLOW_CROSS"), <<<<"1">>>>)
        e2 == set_env(e1, <<"PKG_CONFIG_LIBPATH", p.rustc_triple>>, <<>>)
        e3 == append_path_to_target_env(e2, "PKG_CONFIG_LIBDIR", p.rustc_triple,
                                        toolchain_sysroot(p) \o <<"usr", "lib", "pkgconfig">>)
        e4 == set_env(e3, <<"PKG_CONFIG_SYSROOT_DIR", p.rustc_triple>>,
                      <<toolchain_sysroot(p)>>) IN
    [st EXCEPT !.env = e4]

ToolchainConfig_setup_sysroot(st, p) ==
    [st EXCEPT !.env = set_env(st.env, G("TARGET_SYSROOT"), <<toolchain_sysroot(p)>>)]

\* one shim for every file of <toolchain>/bin, named with the rustc triple
RECURSIVE shim_each(_, _, _)
shim_each(files, p, entries) ==
    IF entries = <<>> THEN files
    ELSE shim_each(create_shim(files, project_root, p.rustc_triple, p.id,
                               <<p.rustc_triple, Head(entries)>>,
                               toolchain_bin(p) \o <<tc_triple(p), Head(entries)>>
                                 \o GLOB_ARGS).files,
                   p, Tail(entries))

ToolchainConfig_shim_executables(st, p) ==
    [env   |-> append_env(st.env, G("PATH"),
                          target_shim_path(project_root, p.rustc_triple, p.id)),
     shims |-> shim_each(st.shims, p, bin_entries(p))]

\* RegularPlatform::build as far as the call of the compiler
RegularPlatform_build_env(st, p) ==
    LET s1 == [st EXCEPT !.env = set_env(set_env(st.env, G("LIBRARY_PATH"), <<>>),
                                         G("LD_LIBRARY_PATH"), <<>>)]
        s2 == IF p.conf_env
              THEN [s1 EXCEPT !.env = set_env(s1.env, G("LIBRARY_PATH"),
                                              <<configuration_env(p)>>)]
              ELSE s1
        s3 == apply_overlay(s2, p)
        s4 == Toolchain_setup_cc(s3, p.rustc_triple, p.id,
                                 ToolchainConfig_executable(p, "gcc"))
        s5 == IF p.has_ar
              THEN Toolchain_setup_ar(s4, ToolchainConfig_executable(p, "ar"))
              ELSE s4
        s6 == Toolchain_setup_linker(s5, p.rustc_triple, p.id,
                                     ToolchainConfig_executable(p, "gcc")
                                       \o <<"--sysroot">> \o toolchain_sysroot(p))
        s7 == ToolchainConfig_setup_pkg_config(s6, p)
        s8 == ToolchainConfig_setup_sysroot(s7, p) IN
    ToolchainConfig_shim_executables(s8, p)

\* n calls so far; the last `times` of them had the same arguments, and `once`
\* is what the first of those left
NoSetup == [n |-> 0, times |-> 0, tool |-> "", rustc_triple |-> "", id |-> "",
            command |-> <<>>, once |-> [env |-> <<>>, shims |-> <<>>]]

\* Platform::build of one more platform in this process
PlatformBuild(p) ==
    /\ Len(builds) < MaxBuilds
    /\ setup = NoSetup
    /\ LET st == RegularPlatform_build_env([env |-> env, shims |-> shims], p) IN
         /\ env' = st.env
         /\ shims' = st.shims
    /\ builds' = Append(builds, p)
    /\ UNCHANGED <<setup, exceptEnv>>

Commands == { <<"usr", "bin", "gcc">>, <<"usr", "bin", "clang">> }

\* setup_cc or setup_linker, called on its own
SetupTool(tool, rustc_triple, id, command) ==
    /\ builds = <<>>
    /\ setup.n < MaxSetups
    /\ LET st == IF tool = "cc"
                 THEN Toolchain_setup_cc([env |-> env, shims |-> shims], rustc_triple, id,
                                         command)
                 ELSE Toolchain_setup_linker([env |-> env, shims |-> shims], rustc_triple,
                                             id, command)
           again == /\ setup.times > 0
                    /\ <<setup.tool, setup.rustc_triple, setup.id, setup.command>>
                         = <<tool, rustc_triple, id, command>> IN
         /\ env' = st.env
         /\ shims' = st.shims
         /\ setup' = [n |-> setup.n + 1,
                      times |-> IF again THEN setup.times + 1 ELSE 1,
                      tool |-> tool, rustc_triple |-> rustc_triple, id |-> id,
                      command |-> command,
                      once |-> IF again THEN setup.once ELSE st]
    /\ UNCHANGED <<builds, exceptEnv>>

(***************************************************************************)
(* build.rs of cargo-dinghy: setup_linker and its create_shim              *)
(***************************************************************************)
\* guess_linker: an error, no linker for the target, or a command line
GuessErr  == <<"err">>
GuessNone == <<>>
\* the command lines guess_linker formats: cc with the SDK path xcrun printed,
\* or the gcc of the prebuilt NDK toolchain found
GuessedLinkers ==
    { <<"cc", "-isysroot", "sdk1">>, <<"cc", "-isysroot", "sdk2">>, <<"ndk", "gcc">> }
LinkerGuesses == {GuessErr, GuessNone} \cup GuessedLinkers

build_shim_path(root, device_target) == root \o <<"target", device_target, "linker">>

\* a create_shim that writes the script whether or not it is there
build_create_shim_always(files, root, device_target, shell) ==
    LET shim == build_shim_path(root, device_target) IN
    [files |-> write_file(files, shim, << <<"#!/bin/sh">>, shell, <<>> >>), shim |-> shim]

\* create_shim of build.rs: a script that exists is returned as it is
build_create_shim(files, root, device_target, shell) ==
    LET shim == build_shim_path(root, device_target) IN
    IF shim \in DOMAIN files
    THEN [files |-> files, shim |-> shim]
    ELSE [files |-> write_file(files, shim, << <<"#!/bin/sh">>, shell, <<>> >>),
          shim |-> shim]

\* setup_linker of build.rs: nothing to do when cargo's configuration names a
\* linker or none can be guessed
build_setup_linker(st, device_target, configured, guess) ==
    IF configured \/ guess \in {GuessErr, GuessNone} THEN st
    ELSE LET made == build_create_shim(st.shims, project_root, device_target, guess) IN
         [env   |-> set_env(st.env, <<"CARGO_TARGET_LINKER", device_target>>, <<made.shim>>),
          shims |-> made.files]

\* compile_tests / compile_bin of one more invocation in the same project
BuildSetupLinker(device_target, configured, guess) ==
    /\ builds = <<>>
    /\ setup.n < MaxSetups
    /\ LET st == build_setup_linker([env |-> env, shims |-> shims], device_target,
                                    configured, guess)
           wrote == ~configured /\ guess \in GuessedLinkers IN
         /\ env' = st.env
         /\ shims' = st.shims
         /\ setup' = IF wrote
                     THEN [setup EXCEPT !.n = @ + 1, !.times = @ + 1, !.tool = "linker",
                                        !.rustc_triple = device_target, !.command = guess]
                     ELSE [setup EXCEPT !.n = @ + 1]
    /\ UNCHANGED <<builds, exceptEnv>>

(***************************************************************************)
(* Dinghy::probe: the managers, their devices                              *)
(***************************************************************************)
MaxDevices == 2    \* most devices one manager lists

\* the outcome of one PlatformManager::devices call
DeviceListings == {[ok |-> FALSE, n |-> 0]} \cup { [ok |-> TRUE, n |-> k] : k \in 0..MaxDevices }

\* the host: is it macOS, does adb start, what `adb devices` and from_id give,
\* what IosManager::new and its devices give, is there a host manager, how
\* many SSH devices the configuration names, do the platforms construct
HostTools ==
    [ macos : BOOLEAN, adb : BOOLEAN, adb_devices : DeviceListings,
      ios_new : {"some", "none", "err"}, ios_devices : DeviceListings,
      host : BOOLEAN, ssh_n : 0..MaxDevices, platforms_ok : BOOLEAN ]

NoTools ==
    [macos |-> FALSE, adb |-> FALSE, adb_devices |-> [ok |-> FALSE, n |-> 0],
     ios_new |-> "none", ios_devices |-> [ok |-> FALSE, n |-> 0], host |-> FALSE,
     ssh_n |-> 0, platforms_ok |-> FALSE]

NoProbe == [state |-> "none", version |-> "", managers |-> <<>>, devices |-> <<>>]

HostManager_probe(t) == IF t.host THEN Some("host") ELSE None

\* an AndroidManager::probe that keeps the manager when adb() failed
AndroidManager_probe_always(t) == Some("android")

\* AndroidManager::probe: None when adb() found no adb
AndroidManager_probe(t) == IF t.adb THEN Some("android") ELSE None

SshDeviceManager_probe(t) == Some("ssh")

\* Dinghy::new_ios_manager: None off macOS; on macOS an error of
\* IosManager::new becomes None
new_ios_manager(t) ==
    IF ~t.macos THEN None
    ELSE IF t.ios_new = "some" THEN Some("ios") ELSE None

\* the IosManager::new of the cargo-dinghy crate off macOS
OldIosManager_new(t) == [ok |-> TRUE, manager |-> None]

\* PlatformManager::devices of one manager
Manager_devices(t, m) ==
    CASE m = "host"    -> [ok |-> TRUE, n |-> 1]
      [] m = "android" -> IF t.adb THEN t.adb_devices ELSE [ok |-> FALSE, n |-> 0]
      [] m = "ssh"     -> [ok |-> TRUE, n |-> t.ssh_n]
      [] m = "ios"     -> t.ios_devices

DevicesOf(m, n) == [i \in 1..n |-> <<m, i>>]

\* the loop of discover_devices: the first failing manager ends it
RECURSIVE discover_devices(_, _, _)
discover_devices(t, managers, v) ==
    IF managers = <<>> THEN [ok |-> TRUE, devices |-> v]
    ELSE LET d == Manager_devices(t, Head(managers)) IN
         IF ~d.ok THEN [ok |-> FALSE, devices |-> <<>>]
         ELSE discover_devices(t, Tail(managers), v \o DevicesOf(Head(managers), d.n))

Dinghy_probe(t) ==
    LET managers == HostManager_probe(t) \o AndroidManager_probe(t)
                      \o SshDeviceManager_probe(t) \o new_ios_manager(t)
        found == discover_devices(t, managers, <<>>) IN
    IF ~t.platforms_ok \/ ~found.ok
    THEN [state |-> "err", version |-> "dinghy-lib", managers |-> managers, devices |-> <<>>]
    ELSE [state |-> "ok", version |-> "dinghy-lib", managers |-> managers,
          devices |-> found.devices]

\* Dinghy::probe and Dinghy::devices of the cargo-dinghy crate
OldDinghy_probe(t) ==
    LET ios == OldIosManager_new(t) IN
    IF ~ios.ok
    THEN [state |-> "err", version |-> "cargo-dinghy", managers |-> <<>>, devices |-> <<>>]
    ELSE LET managers == ios.manager \o AndroidManager_probe(t) \o SshDeviceManager_probe(t)
             found == discover_devices(t, managers, <<>>) IN
         IF ~found.ok
         THEN [state |-> "err", version |-> "cargo-dinghy", managers |-> managers,
               devices |-> <<>>]
         ELSE [state |-> "ok", version |-> "cargo-dinghy", managers |-> managers,
               devices |-> found.devices]

Probe ==
    /\ probe_result.state = "none"
    /\ probe_result' = Dinghy_probe(host_tools)
    /\ UNCHANGED <<host_tools, exceptProbe>>

OldProbe ==
    /\ probe_result.state = "none"
    /\ probe_result' = OldDinghy_probe(host_tools)
    /\ UNCHANGED <<host_tools, exceptProbe>>

(***************************************************************************)
(* RegularPlatform::new: the toolchain directory it inspects               *)
(*                                                                         *)
(* A file name is a sequence of the pieces the code looks for: "arm",      *)
(* "-gcc", ".exe", "-ar".                                                  *)
(***************************************************************************)
MaxEntries == 2    \* most entries of one directory

GccName    == <<"arm", "-gcc">>
GccExeName == <<"arm", "-gcc", ".exe">>
ArName     == <<"arm", "-ar">>
GccArName  == <<"arm", "-gcc", "-ar">>

IoError == [ok |-> FALSE, name |-> <<>>, exec |-> FALSE]
DirEntry(name, exec) == [ok |-> TRUE, name |-> name, exec |-> exec]

\* what read_dir of <toolchain>/bin can yield for one entry: an error, or a
\* file with its name and whether it is executable
BinEntries ==
    { IoError, DirEntry(GccName, TRUE), DirEntry(GccName, FALSE), DirEntry(GccExeName, TRUE),
      DirEntry(ArName, TRUE), DirEntry(GccArName, TRUE) }

\* what read_dir of <toolchain> can yield for one entry: an error, or an entry
\* with or without a directory `sysroot` in it
SubdirEntries == { IoError, DirEntry(<<"with">>, TRUE), DirEntry(<<"without">>, TRUE) }

ToolchainDirs ==
    [ deb_multiarch : {None, Some("arm-linux-gnueabihf")},
      bin : {<<"missing">>, <<"unreadable">>}
              \cup { <<"entries", l>> : l \in SeqsUpTo(BinEntries, MaxEntries) },
      sysroot : {"dir", "file", "missing"},
      readable : BOOLEAN,
      subdirs : SeqsUpTo(SubdirEntries, MaxEntries),
      utf8 : BOOLEAN ]

NoToolchainDir ==
    [deb_multiarch |-> None, bin |-> <<"missing">>, sysroot |-> "missing", readable |-> FALSE,
     subdirs |-> <<>>, utf8 |-> TRUE]

NoToolchain == [bin_dir |-> <<>>, root |-> <<>>, sysroot |-> <<>>, cc_prefix |-> <<>>]
NoNew == [state |-> "none", error |-> "", toolchain |-> NoToolchain]

NewErr(error) == [state |-> "err", error |-> error, toolchain |-> NoToolchain]

\* str::ends_with
ends_with(name, suffix) ==
    /\ Len(name) >= Len(suffix)
    /\ SubSeq(name, Len(name) - Len(suffix) + 1, Len(name)) = suffix

\* str::replace(piece, "")
RECURSIVE replace_with_nothing(_, _)
replace_with_nothing(name, piece) ==
    IF name = <<>> THEN <<>>
    ELSE IF Head(name) = piece THEN replace_with_nothing(Tail(name), piece)
         ELSE <<Head(name)>> \o replace_with_nothing(Tail(name), piece)

is_gcc(name) == ends_with(name, <<"-gcc">>) \/ ends_with(name, <<"-gcc", ".exe">>)

\* the loop over <toolchain>/bin: the first entry that cannot be read ends it
\* with an error, the first *-gcc ends it with the prefix
RECURSIVE find_gcc(_)
find_gcc(entries) ==
    IF entries = <<>> THEN [state |-> "none", prefix |-> <<>>]
    ELSE IF ~Head(entries).ok THEN [state |-> "err", prefix |-> <<>>]
    ELSE IF is_gcc(Head(entries).name)
         THEN [state |-> "found",
               prefix |-> replace_with_nothing(replace_with_nothing(Head(entries).name, ".exe"),
                                               "-gcc")]
         ELSE find_gcc(Tail(entries))

RECURSIVE find_in_subdirs(_)
find_in_subdirs(entries) ==
    IF entries = <<>> THEN "none"
    ELSE IF ~Head(entries).ok THEN "err"
    ELSE IF Head(entries).name = <<"with">> THEN "found"
    ELSE find_in_subdirs(Tail(entries))

\* a find_sysroot that falls back to the toolchain directory
find_sysroot_or_root(d) ==
    IF d.sysroot = "dir"
    THEN IF d.utf8 THEN [ok |-> TRUE, path |-> <<"toolchain", "sysroot">>]
         ELSE [ok |-> FALSE, path |-> <<>>]
    ELSE [ok |-> TRUE, path |-> <<"toolchain">>]

\* find_sysroot: <toolchain>/sysroot, else the first <toolchain>/*/sysroot
find_sysroot(d) ==
    IF d.sysroot = "dir"
    THEN IF d.utf8 THEN [ok |-> TRUE, path |-> <<"toolchain", "sysroot">>]
         ELSE [ok |-> FALSE, path |-> <<>>]
    ELSE IF ~d.readable THEN [ok |-> FALSE, path |-> <<>>]
    ELSE LET found == find_in_subdirs(d.subdirs) IN
         IF found = "found" /\ d.utf8
         THEN [ok |-> TRUE, path |-> <<"toolchain", "sub", "sysroot">>]
         ELSE [ok |-> FALSE, path |-> <<>>]

RegularPlatform_new(d) ==
    IF d.deb_multiarch # None
    THEN [state |-> "ok", error |-> "",
          toolchain |-> [bin_dir |-> <<"usr", "bin">>, root |-> <<>>, sysroot |-> <<>>,
                         cc_prefix |-> d.deb_multiarch]]
    ELSE IF d.bin[1] # "entries" THEN NewErr("Couldn't find toolchain directory")
    ELSE LET gcc == find_gcc(d.bin[2]) IN
         IF gcc.state = "err" THEN NewErr("io")
         ELSE IF gcc.state = "none" THEN NewErr("no bin/*-gcc found in toolchain")
         ELSE LET sysroot == find_sysroot(d) IN
              IF ~sysroot.ok THEN NewErr("no sysroot")
              ELSE [state |-> "ok", error |-> "",
                    toolchain |-> [bin_dir |-> <<"toolchain", "bin">>, root |-> <<"toolchain">>,
                                   sysroot |-> sysroot.path, cc_prefix |-> gcc.prefix]]

New ==
    /\ new_result.state = "none"
    /\ new_result' = RegularPlatform_new(toolchain_dir)
    /\ UNCHANGED <<toolchain_dir, exceptTc>>

(***************************************************************************)
(* Platform::strip                                                         *)
(***************************************************************************)
MaxRunnables == 3    \* most runnables of one build

\* a platform, and for every runnable of its build how the strip tool fares
StripBuilds ==
    [ platform : {"regular", "ios"}, runnables : SeqsUpTo(Outcomes, MaxRunnables) ]

NoStripBuild == [platform |-> "regular", runnables |-> <<>>]
NoStrip == [state |-> "none", invoked |-> <<>>]

\* the command strip hands to strip_runnable
strip_command(platform) ==
    IF platform = "regular" THEN <<"toolchain", "bin", "arm", "strip">> ELSE <<"xcrun", "strip">>

\* platform::strip_runnable: runs the command on the runnable; a tool that
\* fails or does not start is reported to the caller as an error
strip_runnable(outcome) == outcome = "ok"

\* the loop of strip: `?` returns at the first runnable whose strip_runnable
\* is an error
RECURSIVE strip_loop(_, _, _, _)
strip_loop(platform, runnables, i, invoked) ==
    IF i > Len(runnables) THEN [state |-> "ok", invoked |-> invoked]
    ELSE LET now == Append(invoked, <<strip_command(platform), i>>) IN
         IF strip_runnable(runnables[i])
         THEN strip_loop(platform, runnables, i + 1, now)
         ELSE [state |-> "err", invoked |-> now]

Platform_strip(b) == strip_loop(b.platform, b.runnables, 1, <<>>)

Strip ==
    /\ strip_result.state = "none"
    /\ strip_result' = Platform_strip(strip_build)
    /\ UNCHANGED <<strip_build, exceptStrip>>

(***************************************************************************)
(* Dinghy::discover_platforms and platform_by_name                         *)
(*                                                                         *)
(* A triple is the sequence of the pieces the code looks for: "armv7",     *)
(* "-linux", "-ios".                                                       *)
(***************************************************************************)
PlatformNames == {"n1", "n2"}

LinuxTriple == <<"armv7", "-linux">>
IosTriple   == <<"armv7", "-ios">>

\* one [platforms.<name>] of the configuration: its rustc_triple, whether it
\* names a toolchain, whether the platform constructs from it
PlatformConfigurations ==
    [ rustc_triple : {None, Some(LinuxTriple), Some(IosTriple)}, toolchain : BOOLEAN,
      constructs : BOOLEAN ]

PlatConfs ==
    [ macos : BOOLEAN,
      platforms : UNION { [names -> PlatformConfigurations] : names \in SUBSET PlatformNames } ]

NoPlatConf  == [macos |-> FALSE, platforms |-> <<>>]
NoPlatforms == [state |-> "none", platforms |-> <<>>]
NoByName    == [name |-> "", platform |-> None]

is_ios(conf) == conf.rustc_triple # None /\ ends_with(conf.rustc_triple[1], <<"-ios">>)

\* Dinghy::unavailable_platforms, the predicate discover_platforms filters
\* with: false on macOS; elsewhere true unless the triple ends in -ios
unavailable_platforms(macos, conf) ==
    IF macos THEN FALSE
    ELSE IF conf.rustc_triple = None THEN TRUE ELSE ~is_ios(conf)

\* the closure of map: the platform of one configuration, or an error
discover_one(macos, name, conf) ==
    IF conf.rustc_triple # None
    THEN IF is_ios(conf)
         THEN IF macos THEN [ok |-> TRUE, entry |-> <<name, "ios">>]
              ELSE [ok |-> FALSE, entry |-> <<name, "unimplemented">>]
         ELSE IF ~conf.toolchain THEN [ok |-> FALSE, entry |-> <<name, "Toolchain missing">>]
         ELSE IF conf.constructs THEN [ok |-> TRUE, entry |-> <<name, "regular">>]
         ELSE [ok |-> FALSE, entry |-> <<name, "RegularPlatform::new">>]
    ELSE IF conf.constructs THEN [ok |-> TRUE, entry |-> <<name, "host">>]
         ELSE [ok |-> FALSE, entry |-> <<name, "HostPlatform::new">>]

\* filter, map and collect into a Result over the names in iteration order
RECURSIVE discover_collect(_, _, _, _)
discover_collect(macos, confs, order, found) ==
    IF order = <<>> THEN [state |-> "ok", platforms |-> found]
    ELSE LET name == Head(order) IN
         IF ~unavailable_platforms(macos, confs[name])
         THEN discover_collect(macos, confs, Tail(order), found)
         ELSE LET one == discover_one(macos, name, confs[name]) IN
              IF one.ok THEN discover_collect(macos, confs, Tail(order), Append(found, one.entry))
              ELSE [state |-> "err", platforms |-> <<>>]

discover_platforms(c, order) == discover_collect(c.macos, c.platforms, order, <<>>)

\* Dinghy::platform_by_name: the first entry of that name
platform_by_name(platforms, name) ==
    LET hits == { i \in DOMAIN platforms : platforms[i][1] = name } IN
    IF hits = {} THEN None
    ELSE Some(platforms[CHOOSE i \in hits : \A j \in hits : i <= j])

DiscoverPlatforms ==
    /\ dinghy_platforms.state = "none"
    /\ \E order \in Perms(DOMAIN plat_conf.platforms) :
          dinghy_platforms' = discover_platforms(plat_conf, order)
    /\ UNCHANGED <<plat_conf, by_name, exceptDisc>>

PlatformByName(name) ==
    /\ dinghy_platforms.state = "ok"
    /\ by_name' = [name |-> name, platform |-> platform_by_name(dinghy_platforms.platforms, name)]
    /\ UNCHANGED <<plat_conf, dinghy_platforms, exceptDisc>>

(***************************************************************************)
(* Overlayer::apply_overlay: the work directory and the descriptors        *)
(***************************************************************************)
MaxPasses == 2    \* calls of apply_overlay for one platform in one project

LibBarSo == <<"l", "i", "b", "b", "a", "r", ".", "s", "o">>
ReadmeTxt == <<"f", ".", "l">>

\* the files at the top level of an overlay directory
OverlayTops(id) ==
    IF id = "A" THEN { {LibFooSo}, {LibFooSo, LibSo} }
    ELSE { {LibFooSo, LibSo}, {LibBarSo, LibFooSo12, ReadmeTxt} }

\* an overlay directory: its id, whether the walk finds a pkg-config
\* directory below it, its top-level files
OverlayDirs ==
    UNION { { [id |-> id, pkgconfig |-> FALSE, tops |-> tops] : tops \in OverlayTops(id) }
              \cup { [id |-> id, pkgconfig |-> TRUE, tops |-> {LibFooSo}] } :
            id \in OverlayIds }

\* the lists apply_overlay is given: no id twice (unique_by)
OverlayLists ==
    { <<>> } \cup { <<o>> : o \in OverlayDirs }
    \cup { <<o1, o2>> : o1 \in { o \in OverlayDirs : o.id = "A" },
                        o2 \in { o \in OverlayDirs : o.id = "B" } }
    \cup { <<o2, o1>> : o1 \in { o \in OverlayDirs : o.id = "A" },
                        o2 \in { o \in OverlayDirs : o.id = "B" } }

Overlayer_work_dir == <<"proj", "target", "t1", OverlayPlatformId, "overlay">>
Overlayer_sysroot  == <<"toolchains", OverlayPlatformId, "sysroot">>

NoWorkDir == [exists |-> FALSE, files |-> <<>>]
NoOvEnv   == [libdir |-> <<>>, prefix |-> [id \in OverlayIds |-> Unset]]
NoApply   == [passes |-> 0, state |-> "none", error |-> "", warned |-> FALSE,
              overlays |-> <<>>, processed |-> 0]

\* file_has_ext(path, ".so")
file_has_ext(name, ext) == ends_with(name, ext)

\* lib_list of generate_pkg_config_file: the top-level entries with the
\* extension .so, each through lib_name, those it rejects left out
lib_list(tops) ==
    LET so == { f \in tops : file_has_ext(f, <<".", "s", "o">>) } IN
    { lib_name(f).name : f \in { g \in so : lib_name(g).state = "ok" } }

\* work_dir.join(format!("{}.pc", self.platform_id))
pc_file(platform_id) == <<platform_id, ".pc">>

\* generate_pkg_config_file: File::create truncates (created tells whether it
\* succeeds), then Name and Libs are written; pass is the pass that wrote the
\* file
generate_pkg_config_file(dir, overlay, pass, created) ==
    IF ~created THEN [ok |-> FALSE, dir |-> dir]
    ELSE [ok |-> TRUE,
          dir |-> [dir EXCEPT !.files =
                     write_file(dir.files, pc_file(OverlayPlatformId),
                                [name |-> overlay.id, libs |-> lib_list(overlay.tops),
                                 pass |-> pass])]]

\* remove_dir_all(&self.work_dir): the directory is gone, or an error: there
\* was none, or some of it could not be removed
remove_dir_all(dir) ==
    IF ~dir.exists THEN { [ok |-> FALSE, dir |-> dir] }
    ELSE { [ok |-> TRUE, dir |-> NoWorkDir] }
         \cup { [ok |-> FALSE,
                 dir |-> [dir EXCEPT !.files = [f \in kept |-> dir.files[f]]]] :
                   kept \in SUBSET DOMAIN dir.files }

\* create_dir_all(&self.work_dir): a directory that is there is fine
create_dir_all(dir, made) ==
    IF dir.exists THEN [ok |-> TRUE, dir |-> dir]
    ELSE IF made THEN [ok |-> TRUE, dir |-> [exists |-> TRUE, files |-> <<>>]]
    ELSE [ok |-> FALSE, dir |-> dir]

\* the loop over the overlays: st is the directory, the variables, the
\* number of overlays done and the result so far
RECURSIVE apply_each(_, _, _, _)
apply_each(st, overlays, pass, created) ==
    IF overlays = <<>> \/ ~st.ok THEN st
    ELSE LET o    == Head(overlays)
             path == <<"opt", o.id>>
             gen  == IF o.pkgconfig THEN [ok |-> TRUE, dir |-> st.dir]
                     ELSE generate_pkg_config_file(st.dir, o, pass, created[st.processed + 1])
             env1 == IF o.pkgconfig
                     THEN [st.env EXCEPT !.libdir = @ \o <<path \o <<"pkgconfig">>>>]
                     ELSE st.env
             env2 == IF env1.prefix[o.id].set THEN env1
                     ELSE [env1 EXCEPT !.prefix[o.id] =
                             Val(<<path_between(Overlayer_sysroot, path)>>)]
         IN  IF ~gen.ok
             THEN [st EXCEPT !.ok = FALSE, !.dir = gen.dir, !.env = env1]
             ELSE apply_each([ok |-> TRUE, dir |-> gen.dir, env |-> env2,
                              processed |-> st.processed + 1],
                             Tail(overlays), pass, created)

\* Overlayer::apply_overlay
Overlayer_apply_overlay(dir, e, overlays, pass, removed, made, created) ==
    LET mk == create_dir_all(removed.dir, made) IN
    IF ~mk.ok
    THEN [dir |-> mk.dir, env |-> e,
          result |-> [passes |-> pass, state |-> "err", error |-> "create_dir_all",
                      warned |-> FALSE, overlays |-> overlays, processed |-> 0]]
    ELSE LET st == apply_each([ok |-> TRUE, dir |-> mk.dir,
                               env |-> [e EXCEPT !.libdir = @ \o <<Overlayer_work_dir>>],
                               processed |-> 0],
                              overlays, pass, created) IN
         [dir |-> st.dir, env |-> st.env,
          result |-> [passes |-> pass,
                      state |-> IF st.ok THEN "ok" ELSE "err",
                      error |-> IF st.ok THEN "" ELSE "generate_pkg_config_file",
                      warned |-> ~removed.ok /\ removed.dir.exists,
                      overlays |-> overlays, processed |-> st.processed]]

ApplyOverlay(overlays, made, created) ==
    /\ apply_result.passes < MaxPasses
    /\ \E removed \in remove_dir_all(work_dir) :
         LET r == Overlayer_apply_overlay(work_dir, ov_env, overlays,
                                          apply_result.passes + 1, removed, made, created) IN
         /\ work_dir' = r.dir
         /\ ov_env' = r.env
         /\ apply_result' = r.result
    /\ UNCHANGED exceptApply

(***************************************************************************)
(* Specifications                                                          *)
(***************************************************************************)
AbiIdle ==
    /\ getprop = [status |-> "io_error", stdout |-> <<>>]
    /\ from_id_result = [state |-> "none", supported_targets |-> <<>>]

CompatIdle ==
    /\ device = [kind |-> "ssh", id |-> "board", supported_targets |-> <<>>, platform |-> None]
    /\ compat = [state |-> "none", platform |-> NoPlatform, target |-> "", result |-> FALSE]

OverlayIdle ==
    /\ target_path = <<>>
    /\ home = None
    /\ conf_overlays = {}
    /\ overlay_fs = <<>>
    /\ overlay_result = NoOverlayResult

LibIdle ==
    /\ lib_file = <<>>
    /\ lib_result = [state |-> "none", name |-> <<>>]

PathIdle ==
    /\ path_dev = [kind |-> "android", path |-> None, port |-> None]
    /\ host_a = <<>>
    /\ host_b = <<>>
    /\ remote_paths = NoRemotePaths

BundleIdle ==
    /\ maker = "make_app"
    /\ source = [f \in SrcFiles \ {<<"main.rs">>} |-> Meta(1, 0)]
    /\ bundle = EmptyBundle
    /\ clock = 1
    /\ dirty = {}
    /\ make = NoMake

DeployIdle ==
    /\ dev = [kind |-> "android", path |-> None, port |-> None]
    /\ app_path = <<>>
    /\ call = NoCall
    /\ op = NoOp
    /\ remote = {}

RunIdle ==
    /\ cli = NoCli
    /\ drv = NoDrv

EnvIdle ==
    /\ env = NoEnv
    /\ shims = NoShims
    /\ builds = <<>>
    /\ setup = NoSetup

ProbeIdle ==
    /\ host_tools = NoTools
    /\ probe_result = NoProbe

TcIdle ==
    /\ toolchain_dir = NoToolchainDir
    /\ new_result = NoNew

StripIdle ==
    /\ strip_build = NoStripBuild
    /\ strip_result = NoStrip

DiscIdle ==
    /\ plat_conf = NoPlatConf
    /\ dinghy_platforms = NoPlatforms
    /\ by_name = NoByName

CopyIdle == walker = NoWalker

ApplyIdle ==
    /\ work_dir = NoWorkDir
    /\ ov_env = NoOvEnv
    /\ apply_result = NoApply

LateIdle == DiscIdle /\ CopyIdle /\ ApplyIdle

MidIdle == EnvIdle /\ ProbeIdle /\ TcIdle /\ StripIdle

PlatIdle == MidIdle /\ LateIdle

OldIdle ==
    /\ AbiIdle /\ CompatIdle /\ OverlayIdle /\ LibIdle /\ PathIdle /\ BundleIdle /\ DeployIdle
    /\ RunIdle

\* device discovery: one getprop outcome, one from_id
InitAbi ==
    /\ getprop \in GetpropOutcomes
    /\ from_id_result = [state |-> "none", supported_targets |-> <<>>]
    /\ CompatIdle /\ OverlayIdle /\ LibIdle /\ PathIdle /\ BundleIdle /\ DeployIdle /\ RunIdle /\ PlatIdle

NextAbi == AndroidFromId

SpecAbi == InitAbi /\ [][NextAbi]_vars

\* compatibility: one device, asked by any platform or about any target
InitCompat ==
    /\ device \in Devices
    /\ compat = [state |-> "none", platform |-> NoPlatform, target |-> "", result |-> FALSE]
    /\ AbiIdle /\ OverlayIdle /\ LibIdle /\ PathIdle /\ BundleIdle /\ DeployIdle /\ RunIdle /\ PlatIdle

NextCompat ==
    \/ \E p \in Platforms : IsCompatibleWith(p)
    \/ \E t \in Targets : CanRun(t)

SpecCompat == InitCompat /\ [][NextCompat]_vars

\* overlay resolution: a project, a home, a configuration and a disk
InitOverlay ==
    /\ target_path \in ChainDirs
    /\ home \in {None} \cup { Some(h) : h \in HomeDirs }
    /\ conf_overlays \in {{}, {"A"}, {"A", "B"}}
    /\ overlay_fs \in [ { OverlayRoot(dir) : dir \in (ChainDirs \ {<<>>}) \cup HomeDirs }
                          -> OverlayDirContents ]
    /\ overlay_result = NoOverlayResult
    /\ AbiIdle /\ CompatIdle /\ LibIdle /\ PathIdle /\ BundleIdle /\ DeployIdle /\ RunIdle /\ PlatIdle

NextOverlay == OverlayerOverlay

SpecOverlay == InitOverlay /\ [][NextOverlay]_vars

\* library naming: one file name, one lib_name
InitLib ==
    /\ lib_file \in LastComponents
    /\ lib_result = [state |-> "none", name |-> <<>>]
    /\ AbiIdle /\ CompatIdle /\ OverlayIdle /\ PathIdle /\ BundleIdle /\ DeployIdle /\ RunIdle /\ PlatIdle

NextLib == LibName

SpecLib == InitLib /\ [][NextLib]_vars

\* remote paths: one device, two bundles made for it
InitPath ==
    /\ path_dev \in DeployDevices
    /\ host_a \in { make_app_returns(path_dev.kind, e) : e \in Exes }
    /\ host_b \in { make_app_returns(path_dev.kind, e) : e \in Exes }
    /\ remote_paths = NoRemotePaths
    /\ AbiIdle /\ CompatIdle /\ OverlayIdle /\ LibIdle /\ BundleIdle /\ DeployIdle /\ RunIdle /\ PlatIdle

NextPath == DeriveRemote

SpecPath == InitPath /\ [][NextPath]_vars

\* bundling: a source tree that is edited and bundled
InitBundle ==
    /\ maker \in Makers
    /\ source \in { [f \in tree |-> Meta(1, 0)] : tree \in SourceTrees }
    /\ bundle \in {EmptyBundle, StaleBundle(maker)}
    /\ clock = 1
    /\ dirty = {}
    /\ make = NoMake
    /\ AbiIdle /\ CompatIdle /\ OverlayIdle /\ LibIdle /\ PathIdle /\ DeployIdle
    /\ RunIdle /\ PlatIdle

NextBundle ==
    \/ \E f \in Editable, len \in 1..MaxLen : EditFile(f, len)
    \/ MakeApp

SpecBundle == InitBundle /\ [][NextBundle]_vars

\* rec_copy on its own: a source tree, a destination whose files may be
\* missing, of another size, older or newer, and the walker's exclusions
CopyTimes == 0..2

InitCopy ==
    /\ maker = "make_linux_app"
    /\ \E tree \in SourceTrees :
         /\ source \in [tree -> { Meta(len, 1) : len \in 1..MaxLen }]
         /\ \A f \in tree : has_target(f) => source[f] = Meta(1, 1)
         /\ \E files \in [tree -> {None} \cup { Some(Meta(len, t)) :
                                                  len \in 1..MaxLen, t \in CopyTimes }] :
               bundle = [EmptyBundle EXCEPT !.files =
                           [f \in SrcFiles |-> IF f \in tree THEN files[f] ELSE None]]
    /\ walker \in [git : {{}, {<<"Cargo.toml">>}},
                    dinghy : {{}, {<<"src", "main.rs">>, <<"main.rs">>}},
                    copy_ignored_test_data : BOOLEAN]
    /\ clock = 3
    /\ dirty = {}
    /\ make = NoMake
    /\ AbiIdle /\ CompatIdle /\ OverlayIdle /\ LibIdle /\ PathIdle /\ DeployIdle
    /\ RunIdle /\ MidIdle /\ DiscIdle /\ ApplyIdle

NextCopy == RecCopy

SpecCopy == InitCopy /\ [][NextCopy]_vars

\* deployment: one device, one bundle made for it, installed, run and cleaned
InitDeploy ==
    /\ dev \in DeployDevices
    /\ app_path \in { make_app_returns(dev.kind, e) : e \in Exes }
                   \cup (IF dev.kind = "ssh"
                         THEN { make_linux_app_returns(e) : e \in Exes } ELSE {})
    /\ call = NoCall
    /\ op = NoOp
    /\ remote \in {{}, OldRemote, Staged \cup OldRemote}
    /\ AbiIdle /\ CompatIdle /\ OverlayIdle /\ LibIdle /\ PathIdle /\ BundleIdle
    /\ RunIdle /\ PlatIdle

NextDeploy ==
    \/ \E o \in [1..3 -> Outcomes] : InstallApp(o)
    \/ \E args \in SeqsUpTo(ArgWords, MaxArgs), envs \in SeqsUpTo(EnvWords, MaxArgs),
          tty \in BOOLEAN, o \in [1..1 -> Outcomes] : RunApp(args, envs, tty, o)
    \/ \E o \in [1..1 -> Outcomes] : CleanApp(o)
    \/ DebugApp

SpecDeploy == InitDeploy /\ [][NextDeploy]_vars

\* the environment the process starts with
HostEnv(library_path) ==
    [NoEnv EXCEPT ![G("PATH")] = Val(<< <<"usr", "bin">> >>),
                  ![G("LIBRARY_PATH")] = library_path]

\* builds: platforms built one after the other in one process
InitEnv ==
    /\ env \in { HostEnv(l) : l \in {Unset, Val(<< <<"usr", "lib">> >>)} }
    /\ shims = NoShims
    /\ builds = <<>>
    /\ setup = NoSetup
    /\ OldIdle /\ ProbeIdle /\ TcIdle /\ StripIdle /\ LateIdle

NextEnv == \E p \in EnvPlatforms : PlatformBuild(p)

SpecEnv == InitEnv /\ [][NextEnv]_vars

\* wrapper scripts: setup_cc and setup_linker called in any order
InitShim ==
    /\ env = HostEnv(Unset)
    /\ shims = NoShims
    /\ builds = <<>>
    /\ setup = NoSetup
    /\ OldIdle /\ ProbeIdle /\ TcIdle /\ StripIdle /\ LateIdle

NextShim ==
    \E tool \in {"cc", "linker"}, t \in EnvTriples, id \in PlatformIds, c \in Commands :
       SetupTool(tool, t, id, c)

SpecShim == InitShim /\ [][NextShim]_vars

\* invocations of the cargo-dinghy of src/src one after the other in a project
InitLinker == InitShim

NextLinker ==
    \E t \in EnvTriples, configured \in BOOLEAN, guess \in LinkerGuesses :
       BuildSetupLinker(t, configured, guess)

SpecLinker == InitLinker /\ [][NextLinker]_vars

\* probing: one host, probed once
InitProbe ==
    /\ host_tools \in HostTools
    /\ probe_result = NoProbe
    /\ OldIdle /\ EnvIdle /\ TcIdle /\ StripIdle /\ LateIdle

NextProbe == Probe \/ OldProbe

SpecProbe == InitProbe /\ [][NextProbe]_vars

\* construction: one toolchain directory, one RegularPlatform::new
InitTc ==
    /\ toolchain_dir \in ToolchainDirs
    /\ new_result = NoNew
    /\ OldIdle /\ EnvIdle /\ ProbeIdle /\ StripIdle /\ LateIdle

NextTc == New

SpecTc == InitTc /\ [][NextTc]_vars

\* stripping: one build, stripped once
InitStrip ==
    /\ strip_build \in StripBuilds
    /\ strip_result = NoStrip
    /\ OldIdle /\ EnvIdle /\ ProbeIdle /\ TcIdle /\ LateIdle

NextStrip == Strip

SpecStrip == InitStrip /\ [][NextStrip]_vars

\* platform discovery: one configuration on one host, discovered once and
\* then asked by name
InitDisc ==
    /\ plat_conf \in PlatConfs
    /\ dinghy_platforms = NoPlatforms
    /\ by_name = NoByName
    /\ OldIdle /\ MidIdle /\ CopyIdle /\ ApplyIdle

NextDisc ==
    \/ DiscoverPlatforms
    \/ \E n \in PlatformNames : PlatformByName(n)

SpecDisc == InitDisc /\ [][NextDisc]_vars

\* passes of apply_overlay over the overlays of one platform
InitApply ==
    /\ work_dir = NoWorkDir
    /\ ov_env = NoOvEnv
    /\ apply_result = NoApply
    /\ OldIdle /\ MidIdle /\ DiscIdle /\ CopyIdle

NextApply ==
    \E overlays \in OverlayLists, made \in BOOLEAN, fails \in 0..Cardinality(OverlayIds) :
       ApplyOverlay(overlays, made, [i \in 1..Cardinality(OverlayIds) |-> i # fails])

SpecApply == InitApply /\ [][NextApply]_vars

\* one invocation of cargo-dinghy: a command line, the device found if any,
\* what earlier invocations left on the host and on the device
InitRun ==
    /\ cli \in { Cli(sub, t, tc, cl, dbg, found) :
                   sub \in Subcommands \cup {"lldbproxy"}, t \in {None} \cup { Some(x) : x \in Targets },
                   tc \in BOOLEAN, cl \in BOOLEAN, dbg \in BOOLEAN, found \in BOOLEAN }
    /\ drv = NoDrv
    /\ device \in Devices
    /\ ~cli.device => device \in SshDevices /\ device.platform = None
    /\ compat = [state |-> "none", platform |-> NoPlatform, target |-> "", result |-> FALSE]
    /\ maker = "make_app"
    /\ source = [f \in SrcFiles \ {<<"main.rs">>} |-> Meta(1, 0)]
    /\ bundle \in {EmptyBundle, StaleBundle(maker)}
    /\ clock = 1
    /\ dirty = {}
    /\ make = NoMake
    /\ dev = [kind |-> device.kind, path |-> None, port |-> None]
    /\ app_path = make_app_returns(dev.kind, <<"target", "debug", BundleExe>>)
    /\ call = NoCall
    /\ op = NoOp
    /\ remote \in {{}, Staged \cup OldRemote}
    /\ AbiIdle /\ OverlayIdle /\ LibIdle /\ PathIdle /\ PlatIdle

NextRun ==
    \/ Prepare
    \/ BuildSubcommand
    \/ LldbProxy
    \/ \E tc_ok \in BOOLEAN, build_ok \in BOOLEAN, n \in 0..MaxTests : Compile(tc_ok, build_ok, n)
    \/ DriverMakeApp
    \/ DriverMakeAppFails
    \/ \E o \in [1..3 -> Outcomes] : DriverInstallApp(o)
    \/ \E args \in {<<>>, <<"a1", "a2">>}, o \in [1..1 -> Outcomes] : DriverRunApp(args, o)
    \/ DriverDebugApp
    \/ \E o \in [1..1 -> Outcomes] : DriverCleanApp(o)
    \/ NextRunnable
    \/ Return

SpecRun == InitRun /\ [][NextRun]_vars

(***************************************************************************)
(* Properties                                                              *)
(***************************************************************************)
Range(f) == { f[i] : i \in DOMAIN f }

\* the k-th smallest element of a finite set of integers
KthOf(K, k) == CHOOSE i \in K : Cardinality({ j \in K : j < i }) = k - 1

\* the table of C1
C1_Table(name) ==
    CASE name = "arm64-v8a"   -> "aarch64-linux-android"
      [] name = "armeabi-v7a" -> "armv7-linux-androideabi"
      [] name = "armeabi"     -> "arm-linux-androideabi"
      [] name = "x86"         -> "i686-linux-android"

\* C1: whenever getprop ran and printed valid text, from_id succeeds, and its
\* supported_targets are exactly the images of the known ABI tokens of the
\* comma-separated output, one per known token and in the order of the tokens;
\* the unknown tokens leave no trace and cause no error.
C1_AbiMapping ==
    (from_id_result.state # "none" /\ getprop.status = "ok") =>
        LET toks == Split(Trim(getprop.stdout))
            r    == from_id_result.supported_targets
            K    == { i \in DOMAIN toks : Len(toks[i]) = 1 /\ toks[i][1] \in AbiNames }
        IN  /\ from_id_result.state = "ok"
            /\ Range(r) \subseteq AndroidTriples
            /\ Len(r) = Cardinality(K)
            /\ \A k \in DOMAIN r : r[k] = C1_Table(toks[KthOf(K, k)][1])

\* C1 witness: an output of three tokens, the middle one unknown, gave two targets
C1_Witness ==
    /\ from_id_result.state = "ok"
    /\ getprop.stdout = <<"x86", ",", "mips", ",", "armeabi">>
    /\ from_id_result.supported_targets = <<"i686-linux-android", "arm-linux-androideabi">>

Overrides == { <<"android", "regular">>, <<"ssh", "regular">> }

\* C7: the answer of a platform is the answer of the device predicate of the
\* platform's own kind, and it is "incompatible" for every pair of device variant
\* and platform kind outside the overrides: never compatible with host or iOS.
C7_DoubleDispatch ==
    compat.state = "done" =>
        LET p == compat.platform IN
        /\ p.kind = "regular" => compat.result = is_compatible_with_regular_platform(device, p)
        /\ p.kind = "ios"     => compat.result = is_compatible_with_ios_platform(device, p)
        /\ p.kind = "host"    => compat.result = is_compatible_with_host_platform(device, p)
        /\ <<device.kind, p.kind>> \notin Overrides => ~compat.result

\* C7 witness: an iOS platform whose id is the one the SSH device is configured
\* for asked the device, and the device said no
C7_Witness ==
    /\ compat.state = "done"
    /\ compat.platform.kind = "ios"
    /\ device.kind = "ssh"
    /\ device.platform = Some(compat.platform.id)
    /\ ~compat.result

\* the places an overlay can come from, nearest first: the configuration,
\* the project root and each directory above it, the home directory
C2_Roots ==
    LET n  == Len(target_path)
        up == [i \in 1..n |-> OverlayRoot(SubSeq(target_path, 1, n + 1 - i))]
    IN  IF home = None \/ (\E i \in 1..n : up[i] = OverlayRoot(home[1]))
        THEN up ELSE Append(up, OverlayRoot(home[1]))

\* source 0 is the configuration, source k the k-th root
C2_Source(k) ==
    IF k = 0 THEN { <<id, ConfPath(id)>> : id \in conf_overlays }
    ELSE IF ReadDir(overlay_fs, C2_Roots[k]).state = "ok"
         THEN { <<id, C2_Roots[k] \o <<id>>>> : id \in ReadDir(overlay_fs, C2_Roots[k]).entries }
         ELSE {}

C2_Has(k, id) == \E e \in C2_Source(k) : e[1] = id

\* C2: the list handed to apply_overlay holds every id at most once, holds
\* every id some source offers, and binds each id to the path it has in the
\* first source that offers it (configuration, then the project root upward,
\* then the home directory)
C2_FirstOccurrenceWins ==
    overlay_result.state = "applied" =>
      LET res == overlay_result.overlays IN
      /\ \A i, j \in DOMAIN res : i # j => res[i].id # res[j].id
      /\ \A id \in OverlayIds :
           (\E k \in 0..Len(C2_Roots) : C2_Has(k, id)) <=> (\E i \in DOMAIN res : res[i].id = id)
      /\ \A i \in DOMAIN res :
           \E k \in 0..Len(C2_Roots) :
             /\ <<res[i].id, res[i].path>> \in C2_Source(k)
             /\ \A j \in 0..(k - 1) : ~C2_Has(j, res[i].id)

\* A sits in the project root and in the directory above it, B only above:
\* the result is A of the project root, and B
C2_Witness ==
    /\ overlay_result.state = "applied"
    /\ conf_overlays = {}
    /\ target_path = <<"a", "b">>
    /\ ReadDir(overlay_fs, OverlayRoot(<<"a", "b">>)) = [state |-> "ok", entries |-> {"A"}]
    /\ ReadDir(overlay_fs, OverlayRoot(<<"a">>)) = [state |-> "ok", entries |-> {"A", "B"}]
    /\ Len(overlay_result.overlays) = 2
    /\ \E i \in 1..2 : overlay_result.overlays[i] = Overlay("A", OverlayRoot(<<"a", "b">>) \o <<"A">>)
    /\ \E i \in 1..2 : overlay_result.overlays[i] = Overlay("B", OverlayRoot(<<"a">>) \o <<"B">>)

\* the name without a leading "lib"
C3_DropLib(name) ==
    IF Len(name) >= 3 /\ name[1] = "l" /\ name[2] = "i" /\ name[3] = "b"
    THEN SubSeq(name, 4, Len(name)) ELSE name

\* the name up to, and without, the first ".so" in it
C3_DropSo(name) ==
    LET at == { k \in 1..(Len(name) - 2) :
                  name[k] = "." /\ name[k + 1] = "s" /\ name[k + 2] = "o" }
    IN  IF at = {} THEN name
        ELSE SubSeq(name, 1, (CHOOSE k \in at : \A j \in at : k <= j) - 1)

C3_Stripped(name) == C3_DropSo(C3_DropLib(name))

\* C3: lib_name gives the file name without a leading "lib" and without
\* everything from ".so" on; libfoo.so and libfoo.so.1.2 both give foo; when
\* nothing is left, as for lib.so, it gives an error and never an empty name
C3_LibName ==
    lib_result.state # "none" =>
      /\ lib_result.state \in {"ok", "err"}
      /\ lib_result.state = "ok" =>
           /\ lib_result.name = C3_Stripped(lib_file)
           /\ lib_result.name # <<>>
      /\ (file_name(lib_file) # None /\ C3_Stripped(lib_file) # <<>>) =>
           lib_result.state = "ok"
      /\ lib_file \in {LibFooSo, LibFooSo12} =>
           lib_result = [state |-> "ok", name |-> <<"f", "o", "o">>]
      /\ lib_file = LibSo => lib_result.state = "err"

\* lib.so was refused
C3_Witness ==
    /\ lib_file = LibSo
    /\ lib_result.state = "err"

\* libfoo.so.1.2 was named foo
C3_WitnessVersioned ==
    /\ lib_file = LibFooSo12
    /\ lib_result = [state |-> "ok", name |-> <<"f", "o", "o">>]

\* the remote directory every bundle of a device lands in
C4_RemoteDinghyDir(d) ==
    IF d.kind = "android" THEN <<"data", "local", "tmp", "dinghy">>
    ELSE (IF d.path = None THEN <<"tmp">> ELSE d.path[1]) \o <<"dinghy">>

\* C4 as stated: two different host bundle paths never map to the same remote
\* path, and deriving twice gives what deriving once gives
C4_Original ==
    remote_paths.state = "done" =>
      /\ host_a # host_b => remote_paths.a # remote_paths.b
      /\ remote_paths.twice = remote_paths.a

\* C4: the remote path is the device's remote dinghy directory followed by the
\* last component of the host path; two host paths map to the same remote path
\* exactly when their last components are equal; deriving twice gives what
\* deriving once gives
C4_RemoteByFileName ==
    remote_paths.state = "done" =>
      /\ remote_paths.a = C4_RemoteDinghyDir(path_dev) \o <<host_a[Len(host_a)]>>
      /\ remote_paths.b = C4_RemoteDinghyDir(path_dev) \o <<host_b[Len(host_b)]>>
      /\ (remote_paths.a = remote_paths.b) <=> (host_a[Len(host_a)] = host_b[Len(host_b)])
      /\ remote_paths.twice = remote_paths.a

\* the debug and the release bundle of one test share their remote directory
C4_Witness ==
    /\ remote_paths.state = "done"
    /\ path_dev.kind = "ssh"
    /\ host_a = <<"target", "debug", "dinghy", "t1">>
    /\ host_b = <<"target", "release", "dinghy", "t1">>
    /\ remote_paths.a = remote_paths.b

\* C5 as stated: a bundle step that is not the first one copies no source
\* file when none changed since the step before, and exactly one when the
\* content of exactly one changed
C5_Original ==
    make.n >= 2 =>
      /\ make.dirty = {} => make.copies = 0
      /\ Cardinality(make.dirty) = 1 => make.copies = 1

\* rec_copy alone copies exactly the changed files: make_linux_app, which
\* removes nothing, is incremental
C5_IncrementalWithoutRemoval ==
    (maker = "make_linux_app" /\ make.n >= 2) => make.copies = Cardinality(make.dirty)

\* a make_app that removes the previous bundle copies every source file again
C5_RemovalCopiesAll ==
    (maker # "make_linux_app" /\ make.n >= 1) =>
      make.copies = Cardinality(Editable \cap DOMAIN source)

\* the second make_app of dinghy-lib, on an unchanged tree, copied both files
C5_Witness ==
    /\ maker = "make_app"
    /\ make.n = 2
    /\ make.dirty = {}
    /\ make.copies = 2

\* the subprocesses whose exit status the operation drops
C8_Dropped(p) ==
    \/ p.cmd = "ssh mkdir"
    \/ op.name = "install_app" /\ p.cmd = "adb shell rm"

\* no subprocess of the operation was launched twice
C8_NoRetry ==
    \A i, j \in DOMAIN op.procs : i # j => op.procs[i].cmd # op.procs[j].cmd

\* C8 as stated: a non-zero exit status of any subprocess makes the operation
\* fail and is the last subprocess of the operation; nothing is retried
C8_Original ==
    op.name \in {"install_app", "run_app", "clean_app"} =>
      /\ \A i \in DOMAIN op.procs :
           op.procs[i].outcome = "fail" => (op.result = "err" /\ i = Len(op.procs))
      /\ C8_NoRetry

\* C8: a non-zero exit status of adb push, adb shell chmod, the adb shell rm
\* of clean_app, rsync, the ssh run, the adb run or the ssh rm makes the
\* operation fail and is its last subprocess; a non-zero exit status of the
\* adb shell rm of install_app or of the ssh mkdir is dropped and the next
\* subprocess is launched; the operation succeeds exactly when its last
\* subprocess exits with zero; nothing is retried
C8_TransportFailures ==
    op.name \in {"install_app", "run_app", "clean_app"} =>
      /\ \A i \in DOMAIN op.procs :
           op.procs[i].outcome = "fail" =>
             IF C8_Dropped(op.procs[i]) THEN i < Len(op.procs)
             ELSE op.result = "err" /\ i = Len(op.procs)
      /\ op.procs # <<>>
      /\ op.result = "ok" <=> op.procs[Len(op.procs)].outcome = "ok"
      /\ C8_NoRetry

\* an Android install whose rm -rf failed went on to push and chmod, and succeeded
C8_Witness ==
    /\ op.name = "install_app"
    /\ dev.kind = "android"
    /\ Len(op.procs) = 3
    /\ op.procs[1].outcome = "fail"
    /\ op.result = "ok"

\* a failed rsync ended an SSH install with an error
C8_WitnessChecked ==
    /\ op.name = "install_app"
    /\ dev.kind = "ssh"
    /\ op.procs[Len(op.procs)] = Proc("rsync", ssh_target_path(dev, app_path), "fail")
    /\ op.result = "err"

C9_Count(cmd) == Cardinality({ i \in DOMAIN op.procs : op.procs[i].cmd = cmd })

\* C9 as stated: an SSH install launches exactly two rsync and at most one
\* mkdir, the mkdir before both rsync
C9_Original ==
    (op.name = "install_app" /\ dev.kind = "ssh") =>
      /\ C9_Count("rsync") = 2
      /\ C9_Count("ssh mkdir") <= 1
      /\ \A i, j \in DOMAIN op.procs :
           (op.procs[i].cmd = "ssh mkdir" /\ op.procs[j].cmd = "rsync") => i < j

\* C9: an SSH install launches exactly two subprocesses: one ssh mkdir -p of
\* <prefix>/dinghy, then one rsync of the bundle directory
C9_MkdirThenOneRsync ==
    (op.name = "install_app" /\ dev.kind = "ssh") =>
      /\ C9_Count("rsync") = 1
      /\ C9_Count("ssh mkdir") = 1
      /\ Len(op.procs) = 2
      /\ op.procs[1].cmd = "ssh mkdir"
      /\ op.procs[2].cmd = "rsync"

\* an SSH install that succeeded
C9_Witness ==
    /\ op.name = "install_app"
    /\ dev.kind = "ssh"
    /\ dev.path = Some(<<"srv">>)
    /\ op.result = "ok"
    /\ op.procs[2].target = <<"srv", "dinghy", "t1">>

\* the remote bundle directory of the bundle in hand
C10_RemoteDir == C4_RemoteDinghyDir(dev) \o <<app_path[Len(app_path)]>>

C10_WitnessSsh ==
    /\ op.name = "run_app"
    /\ dev.kind = "ssh"
    /\ call.args = <<"a1">>
    /\ call.envs = <<"E=1", "F=2">>
    /\ op.line[7] = <<"LD_LIBRARY_PATH", <<"tmp", "dinghy", "t2">>>>

\* the non-empty prefixes of a path: the path and the directories above it
C11_Prefixes(path) == { SubSeq(path, 1, k) : k \in 1..Len(path) }

\* every file and directory of the bundle, relative to the directory of the
\* executable
C11_Tree ==
    IF ~bundle.exists THEN {}
    ELSE UNION { C11_Prefixes(p) :
           p \in {bundle.root, bundle.src_root}
                 \cup (IF bundle.exe = None THEN {} ELSE {bundle.root \o <<bundle.exe[1].name>>})
                 \cup { bundle.root \o <<l>> : l \in bundle.libs }
                 \cup { bundle.src_root \o f : f \in { g \in SrcFiles : bundle.files[g] # None } }
                 \cup (IF bundle.test_data THEN {bundle.root \o <<"test_data">>} ELSE {})
                 \cup { bundle.root \o <<x>> : x \in bundle.extra } }

\* the dynamic libraries the bundling function in use is given
C11_Libs == IF maker = "make_app" THEN DynamicLibs ELSE {}

C12_RemoteRemoved == remote \ remote' # {}

\* a file or directory of the host bundle is gone after the step
C12_HostRemoved == C11_Tree \ C11_Tree' # {}

\* C12 as stated: no step removes a file of the remote bundle or of the host
\* bundle, except clean_app under the cleanup flag
C12_Original ==
    [][ (C12_RemoteRemoved \/ C12_HostRemoved) =>
          (op'.name = "clean_app" /\ op' # op /\ cli.cleanup) ]_vars

\* C12: a file of the remote bundle is removed only by clean_app under the
\* cleanup flag or by the install_app of an Android device, which clears the
\* remote directory before it pushes; a file of the host bundle is removed
\* only by make_app, which removes the previous bundle before it copies;
\* run_app, debug_app and the install_app of an SSH device remove nothing
C12_DeletionOnlyByReplacementOrCleanup ==
    [][ /\ C12_RemoteRemoved =>
             \/ op'.name = "clean_app" /\ cli.cleanup
             \/ op'.name = "install_app" /\ dev.kind = "android"
        /\ C12_HostRemoved => make'.n = make.n + 1
        /\ (op' # op /\ op'.name \in {"run_app", "debug_app"}) =>
             (remote' = remote /\ bundle' = bundle)
        /\ (op' # op /\ op'.name = "install_app" /\ dev.kind = "ssh") =>
             (remote \subseteq remote' /\ bundle' = bundle) ]_vars

\* an SSH install kept the file of an earlier bundle; the bundle step before
\* it had replaced the host bundle
C12_Witness ==
    /\ drv.pc = "built"
    /\ dev.kind = "ssh"
    /\ op.name = "install_app" /\ op.result = "ok"
    /\ remote = Staged \cup OldRemote
    /\ make.n = 1 /\ bundle.extra = {}

\* clean_app, asked for by the cleanup flag, emptied the remote bundle
C12_WitnessCleanup ==
    /\ cli.cleanup
    /\ op.name = "clean_app" /\ op.result = "ok"
    /\ remote = {}

\* the target the invocation asks for
C13_Target == IF cli.target # None THEN cli.target[1] ELSE Device_target(device)

\* no device was found, or the device found is an Android device that does
\* not list the target
C13_Mismatch ==
    \/ ~cli.device
    \/ /\ device.kind = "android"
       /\ \A i \in DOMAIN device.supported_targets : device.supported_targets[i] # C13_Target

\* C13 as stated: in a run, test, bench or build invocation with a mismatch
\* the compile step is never invoked and the invocation ends with an error
C13_Original ==
    (cli.sub \in Subcommands /\ drv.pc # "start" /\ C13_Mismatch) =>
      /\ drv.compiles = 0
      /\ drv.pc = "done" /\ drv.result = "err"

\* C13: in a run, test or bench invocation with a mismatch the compile step
\* is never invoked and the invocation ends with an error at once; a build
\* invocation does not ask the device: it fails before compiling only when
\* no target or no toolchain can be determined (neither given nor a device
\* found), and compiles otherwise
C13_CheckedBeforeBuild ==
    /\ (cli.sub \in {"run", "test", "bench"} /\ drv.pc # "start" /\ C13_Mismatch) =>
         /\ drv.compiles = 0
         /\ drv.pc = "done" /\ drv.result = "err"
         /\ drv.error \in {"No device found", "device can not run target"}
    /\ (cli.sub = "build" /\ drv.pc # "start") =>
         LET undetermined == \/ cli.target = None /\ ~cli.device
                             \/ ~cli.toolchain /\ ~cli.device
         IN  /\ undetermined =>
                  (drv.compiles = 0 /\ drv.pc = "done" /\ drv.result = "err")
             /\ ~undetermined =>
                  (drv.pc = "checked" \/ drv.error = "toolchain" \/ drv.compiles = 1)

\* an Android device was asked to run a target it does not list: error, no compile
C13_Witness ==
    /\ cli.sub = "test"
    /\ cli.device /\ device.kind = "android"
    /\ device.supported_targets = <<"arm-linux-androideabi">>
    /\ cli.target = Some("aarch64-linux-android")
    /\ drv.pc = "done" /\ drv.result = "err" /\ drv.compiles = 0

\* a build for a target the device found does not list was compiled
C13_WitnessBuild ==
    /\ cli.sub = "build"
    /\ cli.device /\ C13_Mismatch
    /\ drv.compiles = 1 /\ drv.result = "ok"

\* C16 as stated: debug_app and start_remote_lldb of an Android or SSH device
\* return an error of their own kind, and the invocation ends by reporting it
C16_Original ==
    /\ op.name = "debug_app" => op.result = "unsupported"
    /\ (drv.pc = "done" /\ drv.error \in {"debug_app", "start_remote_lldb"}) =>
         drv.result = "unsupported"

\* an invocation with the debugger flag got as far as debug_app and ended in
\* a panic
C16_Witness ==
    /\ cli.debugger
    /\ op.name = "debug_app" /\ op.result = "panic"
    /\ drv.pc = "done" /\ drv.result = "panic"

\* what debug_app and start_remote_lldb do: they panic, whatever the device
C16_Panics ==
    /\ op.name = "debug_app" => op.result = "panic"
    /\ (drv.pc = "done" /\ drv.error \in {"debug_app", "start_remote_lldb"}) =>
         drv.result = "panic"

\* every item one build of p writes into a fresh environment
written_for(p) ==
    UNION { Items(RegularPlatform_build_env([env |-> NoEnv, shims |-> NoShims], p).env[k]) :
              k \in Keys }

\* the variables that steer the build of p
SteeringKeys(p) ==
    GlobalKeys \cup TargetKeys(p.rustc_triple)
      \cup (IF p.overlay = "none" THEN {} ELSE PrefixKeys)

C14_First  == builds[Len(builds) - 1]
C14_Second == builds[Len(builds)]
C14_Leaked(k) == Items(env[k]) \cap (written_for(C14_First) \ written_for(C14_Second))

\* C14: when two platforms are built one after the other in one process, no
\* variable that steers the second build holds, when the second compile step
\* starts, a value or a path component written for the first platform
C14_Original ==
    Len(builds) >= 2 => \A k \in SteeringKeys(C14_Second) : C14_Leaked(k) = {}

\* the variables that build sets outright hold nothing of the first platform
C14_OverwrittenKeys ==
    Len(builds) >= 2 =>
      \A k \in { G("LIBRARY_PATH"), G("LD_LIBRARY_PATH"), G("TARGET_CC"), G("TARGET_SYSROOT"),
                 <<"CARGO_TARGET_LINKER", C14_Second.rustc_triple>>,
                 <<"PKG_CONFIG_SYSROOT_DIR", C14_Second.rustc_triple>> } :
         C14_Leaked(k) = {}

\* two different platforms were built, and PATH still names the shim directory
\* of the first
C14_Witness ==
    /\ Len(builds) >= 2
    /\ C14_First.id # C14_Second.id
    /\ target_shim_path(project_root, C14_First.rustc_triple, C14_First.id)
         \in C14_Leaked(G("PATH"))

C15_Path == target_shim_path(project_root, setup.rustc_triple, setup.id) \o <<setup.tool>>
C15_Var  == IF setup.tool = "cc" THEN G("TARGET_CC")
            ELSE <<"CARGO_TARGET_LINKER", setup.rustc_triple>>

\* C15: setup_cc / setup_linker called again with the same triple, platform id,
\* tool name and command leaves the script content, at
\* <project>/target/<triple>/<platform-id>/<toolName>, and the variable's value
\* that the first call left
C15_ShimSetupIdempotent ==
    setup.times >= 2 =>
      /\ C15_Path \in DOMAIN shims
      /\ shims = setup.once.shims
      /\ env = setup.once.env
      /\ env[C15_Var] = Val(<<C15_Path>>)
      /\ shims[C15_Path] = << <<"#!/bin/sh">>, setup.command \o GLOB_ARGS, <<>> >>

\* the same call twice in a row, after a call that wrote another command to
\* the same script
C15_Witness ==
    /\ setup.n = 3
    /\ setup.times = 2
    /\ setup.once.shims[C15_Path] = shims[C15_Path]

C17_Listed(m) == { i \in DOMAIN probe_result.devices : probe_result.devices[i][1] = m }

\* the managers whose tool the host offers, in the order probe asks them
C17_Available ==
    LET t == host_tools IN
    (IF probe_result.version = "dinghy-lib" /\ t.host THEN <<"host">> ELSE <<>>)
      \o (IF t.adb THEN <<"android">> ELSE <<>>)
      \o <<"ssh">>
      \o (IF probe_result.version = "dinghy-lib" /\ t.macos /\ t.ios_new = "some"
          THEN <<"ios">> ELSE <<>>)

RECURSIVE C17_Expected(_)
C17_Expected(managers) ==
    IF managers = <<>> THEN <<>>
    ELSE DevicesOf(Head(managers), Manager_devices(host_tools, Head(managers)).n)
           \o C17_Expected(Tail(managers))

C17_OthersFine ==
    /\ probe_result.version = "dinghy-lib" => host_tools.platforms_ok
    /\ \A i \in DOMAIN C17_Available : Manager_devices(host_tools, C17_Available[i]).ok

C17_WitnessOld ==
    /\ probe_result.state = "ok"
    /\ probe_result.version = "cargo-dinghy"
    /\ ~host_tools.adb
    /\ C17_Listed("ssh") # {}

C18_Entries == IF toolchain_dir.bin[1] = "entries" THEN toolchain_dir.bin[2] ELSE <<>>

C18_NoBin == toolchain_dir.bin[1] # "entries"

\* no entry of bin that can be read, is executable and is named *-gcc or *-gcc.exe
C18_NoGccExecutable ==
    ~\E i \in DOMAIN C18_Entries :
        C18_Entries[i].ok /\ C18_Entries[i].exec /\ is_gcc(C18_Entries[i].name)

\* no entry of bin named *-gcc or *-gcc.exe, executable or not
C18_NoGccEntry ==
    ~\E i \in DOMAIN C18_Entries : C18_Entries[i].ok /\ is_gcc(C18_Entries[i].name)

C18_NoSysroot ==
    /\ toolchain_dir.sysroot # "dir"
    /\ \/ ~toolchain_dir.readable
       \/ ~\E i \in DOMAIN toolchain_dir.subdirs : toolchain_dir.subdirs[i] = DirEntry(<<"with">>, TRUE)

\* C18: RegularPlatform::new returns an error whenever the bin directory is
\* missing or unreadable, holds no executable named *-gcc or *-gcc.exe, or no
\* sysroot directory is in the toolchain directory or its immediate
\* subdirectories
C18_Original ==
    (new_result.state # "none" /\ (C18_NoBin \/ C18_NoGccExecutable \/ C18_NoSysroot)) =>
      new_result.state = "err"

\* C18, as the code has it: without a deb_multiarch prefix in the
\* configuration, new returns an error whenever the bin directory is missing
\* or unreadable, holds no entry named *-gcc or *-gcc.exe (executable or not),
\* or no sysroot directory is found; with a deb_multiarch prefix the directory
\* is not looked at and new succeeds
C18_MalformedFatalUnlessMultiarch ==
    new_result.state # "none" =>
      /\ (toolchain_dir.deb_multiarch = None /\ (C18_NoBin \/ C18_NoGccEntry \/ C18_NoSysroot)) =>
           (new_result.state = "err" /\ new_result.toolchain = NoToolchain)
      /\ toolchain_dir.deb_multiarch # None => new_result.state = "ok"

\* a toolchain with a gcc and no sysroot anywhere was refused
C18_Witness ==
    /\ new_result.state = "err"
    /\ toolchain_dir.deb_multiarch = None
    /\ ~C18_NoBin /\ ~C18_NoGccEntry /\ C18_NoSysroot
    /\ toolchain_dir.readable /\ Len(toolchain_dir.subdirs) = MaxEntries

\* a toolchain without a bin directory was accepted for a deb_multiarch prefix
C18_WitnessMultiarch ==
    /\ new_result.state = "ok"
    /\ toolchain_dir.deb_multiarch # None
    /\ C18_NoBin

\* the candidate roots of this resolution that exist and cannot be read
C19_Unreadable ==
    { i \in DOMAIN overlay_result.path_to_try :
        ReadDir(overlay_fs, overlay_result.path_to_try[i]).state = "unreadable" }

\* C19: when a candidate overlay root exists and cannot be read,
\* Overlayer::overlay returns an error instead of completing without that
\* directory's overlays
C19_Original ==
    (overlay_result.state # "none" /\ C19_Unreadable # {}) => overlay_result.state = "err"

\* what the code does instead: the resolution completes, with the overlays of
\* the configuration and of the roots that could be read
C19_SkippedSilently ==
    overlay_result.state # "none" =>
      /\ overlay_result.state = "applied"
      /\ \A i \in DOMAIN overlay_result.overlays :
           LET o == overlay_result.overlays[i] IN
           \/ o.path = ConfPath(o.id)
           \/ \E j \in DOMAIN overlay_result.path_to_try :
                /\ j \notin C19_Unreadable
                /\ o.path = overlay_result.path_to_try[j] \o <<o.id>>

\* a resolution completed although one of its roots could not be read, with
\* the overlays of another root in its result
C19_Witness ==
    /\ overlay_result.state = "applied"
    /\ C19_Unreadable # {}
    /\ conf_overlays = {}
    /\ overlay_result.overlays # <<>>

C20_Failing == { i \in DOMAIN strip_build.runnables : strip_build.runnables[i] # "ok" }

C20_InvokedOn(i) == { k \in DOMAIN strip_result.invoked : strip_result.invoked[k][2] = i }

\* C20: strip invokes the strip tool once for each runnable of the build; a
\* failure on one runnable does not keep the others from being stripped and
\* does not make strip fail
C20_Original ==
    strip_result.state # "none" =>
      /\ \A i \in DOMAIN strip_build.runnables : Cardinality(C20_InvokedOn(i)) = 1
      /\ strip_result.state = "ok"

\* what the code does: the tool is invoked once on each runnable up to the
\* first that fails, on none after it, and strip returns an error exactly when
\* one failed
C20_StopsAtFirstFailure ==
    strip_result.state # "none" =>
      /\ \A i \in DOMAIN strip_build.runnables :
           Cardinality(C20_InvokedOn(i))
             = IF \E j \in C20_Failing : j < i THEN 0 ELSE 1
      /\ strip_result.state = (IF C20_Failing = {} THEN "ok" ELSE "err")

\* the tool failed on the first of several runnables; the others were not
\* stripped and strip returned the error
C20_Witness ==
    /\ strip_result.state = "err"
    /\ Len(strip_build.runnables) >= 2
    /\ strip_build.runnables[1] = "fail"
    /\ strip_build.runnables[2] = "ok"
    /\ C20_InvokedOn(2) = {}

\* the platform of that configuration is one this host supports
C21_Supported(conf) == plat_conf.macos \/ ~is_ios(conf)

C21_Configured == DOMAIN plat_conf.platforms

C21_AllConstruct ==
    \A n \in C21_Configured : plat_conf.platforms[n].toolchain /\ plat_conf.platforms[n].constructs

C21_Entries(n) == { i \in DOMAIN dinghy_platforms.platforms : dinghy_platforms.platforms[i][1] = n }

\* C21: on every host OS discover_platforms returns exactly one entry for each
\* configured platform the host supports, and platform_by_name returns that
\* entry for every configured name
C21_Original ==
    (dinghy_platforms.state # "none" /\ C21_AllConstruct) =>
      /\ dinghy_platforms.state = "ok"
      /\ \A n \in C21_Configured :
           Cardinality(C21_Entries(n)) = IF C21_Supported(plat_conf.platforms[n]) THEN 1 ELSE 0
      /\ (by_name.name \in C21_Configured /\ C21_Supported(plat_conf.platforms[by_name.name])) =>
           by_name.platform # None

\* what the code does: off macOS one entry for every platform that is not an
\* iOS one; on macOS no entry at all, and platform_by_name finds nothing
C21_NoneOnMacos ==
    (dinghy_platforms.state # "none" /\ C21_AllConstruct) =>
      /\ dinghy_platforms.state = "ok"
      /\ \A n \in C21_Configured :
           Cardinality(C21_Entries(n))
             = IF ~plat_conf.macos /\ ~is_ios(plat_conf.platforms[n]) THEN 1 ELSE 0
      /\ by_name.name # "" =>
           (by_name.platform # None <=> C21_Entries(by_name.name) # {})

\* on macOS a configured cross platform that constructs was discovered as
\* nothing, and asking for it by name gave None
C21_Witness ==
    /\ plat_conf.macos
    /\ dinghy_platforms.state = "ok"
    /\ by_name.name \in C21_Configured
    /\ plat_conf.platforms[by_name.name].rustc_triple = Some(LinuxTriple)
    /\ C21_AllConstruct
    /\ by_name.platform = None

\* C22: the operations on one runnable
C22_DeviceStep == op' # op /\ op'.name # "none"

C22_BundleStep == make'.n = make.n + 1

C22_Failed == op.result \in {"err", "panic"}

\* C22: for each runnable the steps happen in the order bundle, install, run
\* or debug, clean (clean only when cleanup was requested); the compile step
\* has finished before the first bundle step; the next runnable starts only
\* when the last step of the one before went well; after a failed step no
\* step follows, and what was staged or installed stays as it is until the
\* invocation has ended
C22_PipelineOrder ==
    [][ /\ C22_BundleStep =>
             /\ drv.pc = "built" /\ drv.compiles = 1
             /\ op = NoOp /\ make.n = drv.index /\ drv.index < drv.runnables
        /\ (C22_DeviceStep /\ op'.name = "install_app") =>
             op = NoOp /\ make.n = drv.index + 1
        /\ (C22_DeviceStep /\ op'.name = "run_app") =>
             op.name = "install_app" /\ op.result = "ok" /\ ~cli.debugger
        /\ (C22_DeviceStep /\ op'.name = "debug_app") =>
             op.name = "install_app" /\ op.result = "ok" /\ cli.debugger
        /\ (C22_DeviceStep /\ op'.name = "clean_app") =>
             op.name \in {"run_app", "debug_app"} /\ op.result = "ok" /\ cli.cleanup
        /\ drv'.index # drv.index =>
             /\ drv'.index = drv.index + 1 /\ op.result = "ok"
             /\ op.name = IF cli.cleanup THEN "clean_app" ELSE "run_app"
        /\ C22_Failed =>
             /\ op' = op /\ make' = make /\ drv'.index = drv.index
             /\ bundle' = bundle /\ remote' = remote
             /\ drv'.pc = "done" /\ drv'.result = op.result
        /\ (drv.pc = "built" /\ drv'.pc = "done") =>
             bundle' = bundle /\ remote' = remote
        /\ (drv'.pc = "done" /\ drv'.result = "ok" /\ drv.pc = "built") =>
             \/ drv.runnables = 0
             \/ drv.index + 1 = drv.runnables /\ op.result = "ok" ]_vars

\* C22: the first of two runnables failed at install: the invocation has ended
\* with the error, the second runnable was never bundled, and the bundle of
\* the first is still on the host
C22_Witness ==
    /\ drv.pc = "done" /\ drv.result = "err" /\ drv.runnables = 2 /\ drv.index = 0
    /\ op.name = "install_app" /\ make.n = 1
    /\ bundle # EmptyBundle

\* C22: both runnables went through bundle, install, run and clean
C22_WitnessAll ==
    /\ drv.pc = "done" /\ drv.result = "ok" /\ drv.runnables = 2 /\ drv.index = 1
    /\ op.name = "clean_app" /\ make.n = 2

\* C23: P and its ancestors, nearest first, the filesystem root last
C23_Ancestors(p) == [i \in 1..(Len(p) + 1) |-> SubSeq(p, 1, Len(p) + 1 - i)]

C23_Expected ==
    LET up == [i \in 1..(Len(target_path) + 1) |-> OverlayRoot(C23_Ancestors(target_path)[i])]
    IN  IF home # None /\ ~(\E i \in DOMAIN up : up[i] = OverlayRoot(home[1]))
        THEN Append(up, OverlayRoot(home[1]))
        ELSE up

\* C23: the candidate list is <D>/.dinghy/overlay/<platform-id> for D = P and
\* every ancestor of P up to and including the filesystem root, nearest first,
\* then the one of the home directory when the list does not hold it yet
C23_Original ==
    overlay_result.state = "applied" => overlay_result.path_to_try = C23_Expected

\* C23: what the loop does produce: the list of C23_Expected without the
\* candidate of the filesystem root (unless the home directory is the root's
\* place), and no candidate twice
C23_AllButRoot ==
    overlay_result.state = "applied" =>
        LET l == overlay_result.path_to_try
            n == Len(target_path) IN
        /\ \A i \in 1..n : l[i] = OverlayRoot(SubSeq(target_path, 1, n + 1 - i))
        /\ \A i \in DOMAIN l : l[i] # OverlayRoot(<<>>)
        /\ \A i, j \in DOMAIN l : i # j => l[i] # l[j]
        /\ Len(l) \in {n, n + 1}
        /\ Len(l) = n + 1 <=>
             (home # None /\ \A i \in 1..n : l[i] # OverlayRoot(home[1]))
        /\ Len(l) = n + 1 => l[n + 1] = OverlayRoot(home[1])

\* C23: a project two directories below the root was resolved, with a home
\* directory outside of it: the list ends at the home candidate and the
\* root's candidate is not in it
C23_Witness ==
    /\ overlay_result.state = "applied"
    /\ Len(target_path) = 2 /\ home = Some(<<"h">>)
    /\ Len(overlay_result.path_to_try) = 3
    /\ overlay_result.path_to_try # C23_Expected

\* C26: the platform built last and its shim directory
C26_Platform == builds[Len(builds)]

C26_ShimDir ==
    target_shim_path(project_root, C26_Platform.rustc_triple, C26_Platform.id)

\* C26: every entry of the bin directory has its shim, named after the rustc
\* triple, that calls the entry with the arguments forwarded
C26_ShimsCreated ==
    \A i \in DOMAIN bin_entries(C26_Platform) :
       LET exe  == bin_entries(C26_Platform)[i]
           shim == C26_ShimDir \o <<C26_Platform.rustc_triple, exe>> IN
       /\ shim \in DOMAIN shims
       /\ shims[shim] = << <<"#!/bin/sh">>,
                           toolchain_bin(C26_Platform) \o <<tc_triple(C26_Platform), exe>>
                             \o GLOB_ARGS,
                           <<>> >>

\* C26: after shim_executables every bin entry has its shim in
\* <project>/target/<rustc-triple>/<platform-id>/ and that directory is the
\* first entry of PATH
C26_Original ==
    builds # <<>> =>
        /\ C26_ShimsCreated
        /\ env[G("PATH")].val[1] = C26_ShimDir

\* C26: what does hold: the shims are created and the shim directory is the
\* last entry of PATH, behind everything PATH held before
C26_AppendedLast ==
    builds # <<>> =>
        /\ C26_ShimsCreated
        /\ env[G("PATH")].val[Len(env[G("PATH")].val)] = C26_ShimDir
        /\ env[G("PATH")].val[1] = <<"usr", "bin">>

\* C26: one platform was built: its shims exist, and PATH is the host's
\* directory followed by the shim directory
C26_Witness ==
    /\ Len(builds) = 1
    /\ C26_ShimsCreated
    /\ env[G("PATH")].val = << <<"usr", "bin">>, C26_ShimDir >>

\* C30: the script of the setup call made last
C30_Shim == build_shim_path(project_root, setup.rustc_triple)

\* C30: after any sequence of shim setups for the same triple and tool name,
\* the wrapper script on disk holds the command of the most recent setup call
C30_Original ==
    setup.times >= 1 =>
        /\ C30_Shim \in DOMAIN shims
        /\ shims[C30_Shim] = << <<"#!/bin/sh">>, setup.command, <<>> >>

\* C30: what the build.rs script does hold: the command of the first setup
\* call that guessed a linker for the triple; the variable names the script
C30_FirstWins ==
    [][ \A t \in EnvTriples :
          build_shim_path(project_root, t) \in DOMAIN shims =>
             /\ build_shim_path(project_root, t) \in DOMAIN shims'
             /\ shims'[build_shim_path(project_root, t)]
                  = shims[build_shim_path(project_root, t)] ]_vars

\* C30: the setup_cc / setup_linker of dinghy-lib: the script holds the
\* command of the call made last
C30_TruncatingReflectsLatest ==
    (setup.n >= 1 /\ setup.tool \in {"cc", "linker"} /\ setup.id # "") =>
        shims[target_shim_path(project_root, setup.rustc_triple, setup.id) \o <<setup.tool>>]
          = << <<"#!/bin/sh">>, setup.command \o GLOB_ARGS, <<>> >>

\* C30: two setups for one triple, the second with another command: the
\* script still holds the first command
C30_Witness ==
    /\ setup.times = 2
    /\ C30_Shim \in DOMAIN shims
    /\ shims[C30_Shim][2] # setup.command
    /\ env[<<"CARGO_TARGET_LINKER", setup.rustc_triple>>] = Val(<<C30_Shim>>)

\* C27: the file was copied in this step: it carries the source's size and the
\* time of the copy
C27_Copied(f) ==
    /\ f \in DOMAIN source
    /\ bundle'.files[f] = Some(Meta(source[f].len, clock))

C27_Skipped(f) == has_target(f) \/ walk_ignores(walker, f)

\* C27: rec_copy copies a source file exactly when its destination does not
\* exist, or has another size, or is older than the source; a destination of
\* the same size that is not older is left as it is; entries with a component
\* named target, entries .dinghyignore excludes, and (unless ignored test data
\* is asked for) entries the git ignore rules exclude are skipped
C27_CopyRule ==
    [][ make'.n = make.n + 1 =>
          /\ \A f \in DOMAIN source :
                C27_Copied(f) <=>
                  /\ ~C27_Skipped(f)
                  /\ \/ bundle.files[f] = None
                     \/ bundle.files[f][1].len # source[f].len
                     \/ bundle.files[f][1].mtime < source[f].mtime
          /\ \A f \in SrcFiles :
                (f \notin DOMAIN source \/ ~C27_Copied(f)) =>
                   bundle'.files[f] = bundle.files[f]
          /\ make'.copies = Cardinality({ f \in DOMAIN source : C27_Copied(f) }) ]_vars

\* C27: one pass copied a file whose destination had another size though it
\* was newer, left a file of the same size and time alone, and skipped the
\* file below target/
C27_Witness ==
    /\ make.n = 1 /\ clock = 4 /\ make.copies = 1
    /\ walker.git = {} /\ walker.dinghy = {}
    /\ bundle.files[<<"Cargo.toml">>] = Some(Meta(2, 3))
    /\ source[<<"Cargo.toml">>] = Meta(2, 1)
    /\ <<"src", "main.rs">> \in DOMAIN source
    /\ bundle.files[<<"src", "main.rs">>] = Some(Meta(1, 1))
    /\ bundle.files[<<"target", "debug", "t1">>] = None

\* C27: a file the project's .dinghyignore excludes was not copied though its
\* destination is missing
C27_WitnessIgnored ==
    /\ make.n = 1 /\ clock = 4
    /\ <<"main.rs">> \in DOMAIN source
    /\ <<"main.rs">> \in walker.dinghy
    /\ bundle.files[<<"main.rs">>] = None

\* C28: the remote directory of the bundle make_app returned, and the
\* executable in it
C28_Dir == C4_RemoteDinghyDir(dev) \o <<FileName(app_path)>>

C28_Exe == C28_Dir \o <<FileName(app_path)>>

\* C28: the remote paths the subprocesses of the last operation named
C28_Targets(cmds) ==
    { op.procs[i].target : i \in { j \in DOMAIN op.procs : op.procs[j].cmd \in cmds } }

C28_LineHas(word) == \E i \in DOMAIN op.line : op.line[i] = word

\* C28: install_app writes (and, on Android, first empties), run_app enters
\* and clean_app removes one and the same remote directory, the one derived
\* from the bundle path make_app returned; run_app starts the executable of
\* that directory, the one install made executable; after an install that
\* went well the bundle is in that directory, after a clean that went well
\* nothing is
C28_SameLocation ==
    /\ C28_Targets({"adb push", "rsync", "adb shell rm", "ssh rm", "adb shell run",
                    "ssh run"}) \subseteq {C28_Dir}
    /\ C28_Targets({"adb shell chmod"}) \subseteq {C28_Exe}
    /\ op.name = "run_app" =>
          /\ C28_LineHas(Word("dir", C28_Dir))
          /\ C28_LineHas(Word("exe", C28_Exe))
    /\ (op.name = "install_app" /\ op.result = "ok") => Staged \subseteq remote
    /\ (op.name = "run_app" /\ op.result = "ok") => Staged \subseteq remote
    /\ (op.name = "clean_app" /\ op.result = "ok") => remote = {}

\* C28: an Android bundle was installed over an older one, run and cleaned
C28_Witness ==
    /\ dev.kind = "android"
    /\ op.name = "clean_app" /\ op.result = "ok"
    /\ op.procs[1].target = C28_Dir
    /\ remote = {}

\* C28: a bundle was installed on an SSH device with a configured path and
\* is running from the directory it was installed to
C28_WitnessSsh ==
    /\ dev.kind = "ssh" /\ dev.path # None
    /\ op.name = "run_app" /\ op.result = "ok"
    /\ C28_LineHas(Word("exe", <<"srv", "dinghy", FileName(app_path), FileName(app_path)>>))
    /\ Staged \subseteq remote

\* the overlays of the last pass for which a descriptor was to be synthesized
\* and whose turn came
C24_Synthesized ==
    { i \in DOMAIN apply_result.overlays :
        /\ ~apply_result.overlays[i].pkgconfig
        /\ i <= apply_result.processed }

C24_SoFiles(o) == { f \in o.tops : ends_with(f, <<".", "s", "o">>) }

\* a top-level *.so file whose name leaves no library name
C24_BadName(o) == \E f \in C24_SoFiles(o) : C3_Stripped(f) = <<>>

C24_Descriptor == work_dir.files[pc_file(OverlayPlatformId)]

\* C24: synthesizing the descriptor of an overlay that has a top-level *.so
\* file with an empty library name returns an error; otherwise the
\* descriptor lists every top-level *.so file of the overlay
C24_Original ==
    \A i \in DOMAIN apply_result.overlays :
       LET o == apply_result.overlays[i] IN
       /\ (i \in C24_Synthesized /\ C24_BadName(o)) => apply_result.state = "err"
       /\ (i \in C24_Synthesized /\ ~C24_BadName(o) /\ Len(apply_result.overlays) = 1) =>
             C24_Descriptor.libs = { C3_Stripped(f) : f \in C24_SoFiles(o) }

\* C24: what does hold: the descriptor lists the top-level *.so files whose library name is not
\* empty and leaves the others out
C24_BadNamesLeftOut ==
    \A i \in C24_Synthesized :
       LET o == apply_result.overlays[i] IN
       Len(apply_result.overlays) = 1 =>
             C24_Descriptor.libs
               = { C3_Stripped(f) : f \in { g \in C24_SoFiles(o) : C3_Stripped(g) # <<>> } }

\* C24: a pass over one overlay that holds libfoo.so and lib.so returned Ok;
\* its descriptor lists foo alone
C24_Witness ==
    /\ apply_result.state = "ok"
    /\ Len(apply_result.overlays) = 1
    /\ ~apply_result.overlays[1].pkgconfig
    /\ apply_result.overlays[1].tops = {LibFooSo, LibSo}
    /\ C24_Descriptor.libs = { <<"f", "o", "o">> }

\* C25: every pass removes and recreates the work directory; when it cannot
\* be recreated the pass returns an error before any overlay is processed;
\* after a pass that returned Ok the work directory holds no file of an
\* earlier pass
C25_Original ==
    /\ apply_result.error = "create_dir_all" =>
          apply_result.processed = 0 /\ ~work_dir.exists
    /\ apply_result.state = "ok" =>
          /\ work_dir.exists
          /\ \A f \in DOMAIN work_dir.files : work_dir.files[f].pass = apply_result.passes

\* C25: what does hold: a failed recreation ends the pass before any overlay;
\* a file of an earlier pass is in the work directory after a pass that
\* returned Ok only when the removal failed and left the directory in place
C25_StaleOnlyAfterWarning ==
    /\ apply_result.error = "create_dir_all" =>
          apply_result.processed = 0 /\ ~work_dir.exists
    /\ apply_result.state = "ok" =>
          /\ work_dir.exists
          /\ (\E f \in DOMAIN work_dir.files : work_dir.files[f].pass # apply_result.passes)
                => apply_result.warned

\* C25: the second pass could not remove the work directory, went on over an
\* overlay that has a pkg-config directory and returned Ok; the descriptor
\* of the first pass is still in the work directory
C25_Witness ==
    /\ apply_result.passes = 2 /\ apply_result.state = "ok" /\ apply_result.warned
    /\ Len(apply_result.overlays) = 1 /\ apply_result.overlays[1].pkgconfig
    /\ \E f \in DOMAIN work_dir.files : work_dir.files[f].pass = 1

\* the overlays of the last pass that have no pkg-config directory
C29_NoPkgConfig ==
    { i \in DOMAIN apply_result.overlays : ~apply_result.overlays[i].pkgconfig }

C29_DescriptorOf(o) ==
    { f \in DOMAIN work_dir.files :
        /\ work_dir.files[f].name = o.id
        /\ work_dir.files[f].pass = apply_result.passes }

\* C29: after a pass that returned Ok the work directory holds, for every
\* overlay without a pkg-config directory, a descriptor of that overlay
C29_Original ==
    apply_result.state = "ok" =>
       \A i \in C29_NoPkgConfig : C29_DescriptorOf(apply_result.overlays[i]) # {}

\* C29: what does hold: all descriptors of a pass go to the one file
\* <platform-id>.pc, which holds the descriptor of the last overlay without
\* a pkg-config directory
C29_LastWins ==
    (apply_result.state = "ok" /\ C29_NoPkgConfig # {}) =>
       LET last == CHOOSE i \in C29_NoPkgConfig : \A j \in C29_NoPkgConfig : j <= i IN
       /\ DOMAIN work_dir.files = { <<OverlayPlatformId, ".pc">> }
       /\ work_dir.files[<<OverlayPlatformId, ".pc">>].name = apply_result.overlays[last].id
       /\ work_dir.files[<<OverlayPlatformId, ".pc">>].libs
            = lib_list(apply_result.overlays[last].tops)

\* C29: a pass over two overlays without pkg-config directory returned Ok and
\* the work directory holds the descriptor of the second one only
C29_Witness ==
    /\ apply_result.state = "ok"
    /\ C29_NoPkgConfig = {1, 2}
    /\ C29_DescriptorOf(apply_result.overlays[1]) = {}
    /\ C29_DescriptorOf(apply_result.overlays[2]) # {}
====
